---- MODULE Spec2Model ----
(***************************************************************************)
(* citeease-cli: identifier classification, parallel resolution through   *)
(* the CSLJsonParser source adapters, partitioning of the settled results *)
(* and bibliography rendering.                                            *)
(*                                                                         *)
(* Strings are sequences of one-character strings, so that trim,          *)
(* startsWith, slice, replace and the regular expressions of the source   *)
(* are computed character by character.                                   *)
(***************************************************************************)
EXTENDS Integers, Sequences, FiniteSets, TLC

(***************************************************************************)
(* Characters and string helpers                                           *)
(***************************************************************************)
Digits == {"0", "1", "2", "3", "4", "5", "6", "7", "8", "9"}

Lower == {"a", "b", "c", "d", "e", "f", "g", "h", "i", "j", "k", "l", "m",
          "n", "o", "p", "q", "r", "s", "t", "u", "v", "w", "x", "y", "z"}

Upper == {"A", "B", "C", "D", "E", "F", "G", "H", "I", "J", "K", "L", "M",
          "N", "O", "P", "Q", "R", "S", "T", "U", "V", "W", "X", "Y", "Z"}

\* White space removed by String.prototype.trim (the characters used here).
WhiteSpace == {" ", "\t", "\n", "\r"}

\* [-._;()/:a-zA-Z0-9] of the DOI pattern.
DoiSuffixChars == {"-", ".", "_", ";", "(", ")", "/", ":"} \cup Lower \cup Upper \cup Digits

\* [a-zA-Z0-9-._~:/?#[\]@!$&'()*+,;=] of the URL pattern.
UrlChars == Lower \cup Upper \cup Digits \cup
            {"-", ".", "_", "~", ":", "/", "?", "#", "[", "]", "@", "!", "$",
             "&", "'", "(", ")", "*", "+", ",", ";", "="}

StartsWith(s, p) == Len(s) >= Len(p) /\ SubSeq(s, 1, Len(p)) = p

\* s.slice(n)
Slice(s, n) == SubSeq(s, n + 1, Len(s))

AllIn(s, C) == \A i \in 1..Len(s) : s[i] \in C

RECURSIVE TrimStart(_)
TrimStart(s) == IF s # <<>> /\ s[1] \in WhiteSpace THEN TrimStart(Tail(s)) ELSE s

RECURSIVE TrimEnd(_)
TrimEnd(s) == IF s # <<>> /\ s[Len(s)] \in WhiteSpace
              THEN TrimEnd(SubSeq(s, 1, Len(s) - 1)) ELSE s

\* String.prototype.trim
Trim(s) == TrimEnd(TrimStart(s))

\* trimmed.replace(/-/g, "")
StripHyphens(s) == SelectSeq(s, LAMBDA c : c # "-")

RECURSIVE Flatten(_)
Flatten(ss) == IF ss = <<>> THEN <<>> ELSE Head(ss) \o Flatten(Tail(ss))

(***************************************************************************)
(* String constants of the source                                          *)
(***************************************************************************)
sUrlP == <<"u", "r", "l", ":">>
sDoiP == <<"d", "o", "i", ":">>
sPmcidP == <<"p", "m", "c", "i", "d", ":">>
sPmidP == <<"p", "m", "i", "d", ":">>
sIsbnP == <<"i", "s", "b", "n", ":">>
sHttp == <<"h", "t", "t", "p", ":", "/", "/">>
sHttps == <<"h", "t", "t", "p", "s", ":", "/", "/">>
sDx == <<"d", "x", ".">>
sDoiOrg == <<"d", "o", "i", ".", "o", "r", "g", "/">>
sTenDot == <<"1", "0", ".">>
sPMC == <<"P", "M", "C">>

\* const identifierPrefixes, in the insertion order Object.entries walks it.
identifierPrefixes ==
    << [prefix |-> sUrlP, type |-> "URL"],
       [prefix |-> sDoiP, type |-> "DOI"],
       [prefix |-> sPmcidP, type |-> "PMCID"],
       [prefix |-> sPmidP, type |-> "PMID"],
       [prefix |-> sIsbnP, type |-> "ISBN"] >>

(***************************************************************************)
(* The patterns of recognizeIdentifierType                                 *)
(***************************************************************************)
\* 10\.\d{4,9}\/[-._;()/:a-zA-Z0-9]+$
MatchBareDOI(s) ==
    /\ StartsWith(s, sTenDot)
    /\ \E k \in 4..9 :
          /\ Len(s) >= 3 + k + 2
          /\ AllIn(SubSeq(s, 4, 3 + k), Digits)
          /\ s[4 + k] = "/"
          /\ AllIn(Slice(s, 4 + k), DoiSuffixChars)

\* ((https?:\/\/)?(?:dx\.)?doi\.org\/)? : every string the optional group can consume
ResolverPrefixes ==
    {<<>>} \cup {sch \o dx \o sDoiOrg : sch \in {<<>>, sHttp, sHttps}, dx \in {<<>>, sDx}}

\* DOI: /^((https?:\/\/)?(?:dx\.)?doi\.org\/)?10\.\d{4,9}\/[-._;()/:a-zA-Z0-9]+$/
MatchDOI(s) == \E r \in ResolverPrefixes : StartsWith(s, r) /\ MatchBareDOI(Slice(s, Len(r)))

\* URL: /^(https?:\/\/)[a-zA-Z0-9-._~:/?#[\]@!$&'()*+,;=]+$/
MatchURL(s) ==
    \E sch \in {sHttp, sHttps} :
        /\ StartsWith(s, sch)
        /\ Len(s) > Len(sch)
        /\ AllIn(Slice(s, Len(sch)), UrlChars)

\* PMCID: /^PMC\d+$/
MatchPMCID(s) == StartsWith(s, sPMC) /\ Len(s) > 3 /\ AllIn(Slice(s, 3), Digits)

\* PMID: /^\d{7,10}$/
MatchPMID(s) == Len(s) \in 7..10 /\ AllIn(s, Digits)

\* ISBN: /^(97[89])\d{9}(\d|X)$/
MatchISBN(s) ==
    /\ Len(s) = 13
    /\ s[1] = "9" /\ s[2] = "7" /\ s[3] \in {"8", "9"}
    /\ AllIn(SubSeq(s, 4, 12), Digits)
    /\ s[13] \in Digits \cup {"X"}

\* undefined: /.^/ matches nothing
MatchUndefined(s) == FALSE

Matches(type, s) ==
    CASE type = "DOI" -> MatchDOI(s)
      [] type = "URL" -> MatchURL(s)
      [] type = "PMCID" -> MatchPMCID(s)
      [] type = "PMID" -> MatchPMID(s)
      [] type = "ISBN" -> MatchISBN(s)
      [] OTHER -> MatchUndefined(s)

\* const patterns, in the insertion order Object.entries walks it.
patterns == <<"DOI", "URL", "PMCID", "PMID", "ISBN", "undefined">>

\* The first entry of a list of types whose pattern matches s, "undefined" if none.
FirstMatch(order, s) ==
    LET hits == {i \in 1..Len(order) : Matches(order[i], s)}
    IN IF hits = {} THEN "undefined"
       ELSE order[CHOOSE i \in hits : \A j \in hits : i <= j]

\* recognizeIdentifierType with a forced type honoured only when the remainder matches
\* that type's pattern
recognizeIdentifierType_Validated(input) ==
    LET trimmed == Trim(input)
        forced == {i \in 1..Len(identifierPrefixes) :
                      /\ StartsWith(trimmed, identifierPrefixes[i].prefix)
                      /\ Matches(identifierPrefixes[i].type,
                                 StripHyphens(Trim(Slice(trimmed,
                                                         Len(identifierPrefixes[i].prefix)))))}
    IN IF forced # {}
       THEN LET i == CHOOSE i \in forced : \A j \in forced : i <= j
            IN [type |-> identifierPrefixes[i].type,
                value |-> Trim(Slice(trimmed, Len(identifierPrefixes[i].prefix)))]
       ELSE [type |-> FirstMatch(patterns, StripHyphens(trimmed)), value |-> trimmed]

\* recognizeIdentifierType returning the hyphen-stripped copy
recognizeIdentifierType_Cleaned(input) ==
    LET trimmed == Trim(input)
        forced == {i \in 1..Len(identifierPrefixes) :
                      StartsWith(trimmed, identifierPrefixes[i].prefix)}
    IN IF forced # {}
       THEN LET i == CHOOSE i \in forced : \A j \in forced : i <= j
            IN [type |-> identifierPrefixes[i].type,
                value |-> Trim(Slice(trimmed, Len(identifierPrefixes[i].prefix)))]
       ELSE [type |-> FirstMatch(patterns, StripHyphens(trimmed)),
             value |-> StripHyphens(trimmed)]

\* function recognizeIdentifierType(input): [IdentifierType, string]
recognizeIdentifierType(input) ==
    LET trimmed == Trim(input)
        forced == {i \in 1..Len(identifierPrefixes) :
                      StartsWith(trimmed, identifierPrefixes[i].prefix)}
    IN IF forced # {}
       THEN LET i == CHOOSE i \in forced : \A j \in forced : i <= j
            IN [type |-> identifierPrefixes[i].type,
                value |-> Trim(Slice(trimmed, Len(identifierPrefixes[i].prefix)))]
       ELSE [type |-> FirstMatch(patterns, StripHyphens(trimmed)), value |-> trimmed]

(***************************************************************************)
(* More string constants                                                   *)
(***************************************************************************)
sPubmed == <<"h", "t", "t", "p", "s", ":", "/", "/", "p", "u", "b", "m", "e", "d", ".",
             "n", "c", "b", "i", ".", "n", "l", "m", ".", "n", "i", "h", ".", "g", "o", "v">>
sDoiResolver == sHttps \o sDoiOrg

\* absent (undefined) and empty strings are both falsy; both are the empty string here
Absent == <<>>

\* a || b on strings
OrElse(a, b) == IF a # <<>> THEN a ELSE b

\* the lower-case form of a character (the letters of the scheme)
LowerOf(c) ==
    CASE c = "H" -> "h" [] c = "T" -> "t" [] c = "P" -> "p" [] c = "S" -> "s"
      [] OTHER -> c

ToLower(s) == [i \in 1..Len(s) |-> LowerOf(s[i])]

\* /^https?:\/\//i.test(url)
HasScheme(url) == StartsWith(ToLower(url), sHttp) \/ StartsWith(ToLower(url), sHttps)

\* pmcid.replace(/^PMC/, "")
StripPMC(pmcid) == IF StartsWith(pmcid, sPMC) THEN Slice(pmcid, 3) ELSE pmcid

\* author.split(/\s+/): the pieces between maximal runs of white space
RECURSIVE SplitWS(_, _, _)
SplitWS(s, cur, inGap) ==
    IF s = <<>> THEN <<cur>>
    ELSE IF s[1] \in WhiteSpace
         THEN IF inGap THEN SplitWS(Tail(s), cur, TRUE)
              ELSE <<cur>> \o SplitWS(Tail(s), <<>>, TRUE)
         ELSE SplitWS(Tail(s), Append(cur, s[1]), FALSE)

RECURSIVE JoinSpace(_)
JoinSpace(ss) ==
    IF ss = <<>> THEN <<>>
    ELSE IF Len(ss) = 1 THEN ss[1]
    ELSE ss[1] \o <<" ">> \o JoinSpace(Tail(ss))

\* private createAuthorsArray(authors)
createAuthorsArray(authors) ==
    [i \in 1..Len(authors) |->
        LET names == SplitWS(authors[i], <<>>, FALSE)
        IN [given |-> names[1], family |-> JoinSpace(Tail(names))]]

(***************************************************************************)
(* Dates.  A Date is [y, m, d] with m the zero-based month of getMonth();  *)
(* an invalid Date has NaN in every part.                                  *)
(***************************************************************************)
NaN == -1

InvalidDate == [y |-> NaN, m |-> NaN, d |-> NaN]

\* new Date(): the time of the resolution
Now == [y |-> 2024, m |-> 0, d |-> 15]

NoDate == <<>>

\* if (x) on a number
TruthyNum(n) == n # 0 /\ n # NaN

\* NaN + 1 is NaN
Plus1(n) == IF n = NaN THEN NaN ELSE n + 1

\* private createDateObject(yearOrDate) with a Date argument: its date-parts
createDateObject(date) ==
    LET year == date.y
        adjustedMonth == Plus1(date.m)
        adjustedDay == date.d
    IN <<year>> \o (IF TruthyNum(adjustedMonth) THEN <<adjustedMonth>> ELSE <<>>)
                \o (IF TruthyNum(adjustedDay) THEN <<adjustedDay>> ELSE <<>>)

sDateGood == <<"2", "0", "2", "0", "-", "0", "3", "-", "0", "7">>
sDateBad == <<"n", ".", "d", ".">>

\* new Date(string)
ParseDate(s) == IF s = sDateGood THEN [y |-> 2020, m |-> 2, d |-> 7] ELSE InvalidDate

(***************************************************************************)
(* State                                                                   *)
(***************************************************************************)
VARIABLES
    argv,               \* the identifiers of the command line
    logErrors,          \* --log-errors
    rich,               \* TRUE: the network may answer with every body modelled
    pc,                 \* position of main
    parsedIdentifiers,  \* identifiers.map(recognizeIdentifierType)
    tasks,              \* one promise per dispatched identifier, in dispatch order
    cslJson,            \* the parser's store (this.cslJson of retrieveContent's parser)
    uidNext,            \* the next value uid() returns
    stdout,             \* what was written to process.stdout, in order
    stderr,             \* what was written to process.stderr, in order
    failed,             \* main's failed
    successful,         \* main's successful
    rendering,          \* the renderer's input and what toBibliography resolved to
    entry,              \* the entry point that runs: "index" (index.ts) or "part_001"
    configFile,         \* ~/.citease-cli/config.json
    history,            \* the command lines run so far, the current one last
    options,            \* style, locale, format and showIntext of parseArguments
    exitCode            \* the exit code of the process once it has ended

vars == <<argv, logErrors, rich, pc, parsedIdentifiers, tasks, cslJson, uidNext,
          stdout, stderr, failed, successful, rendering, entry, configFile, history,
          options, exitCode>>

\* what a run of main leaves alone once the arguments are parsed
shell == <<entry, configFile, history, options>>

Null == [null |-> TRUE]

NoAnswer == [kind |-> "none"]

(***************************************************************************)
(* What the external services may answer                                   *)
(***************************************************************************)
sTitle == <<"T">>
sSite == <<"S">>
sAuthor == <<"A", "d", "a", " ", "L", " ", "B">>
sWorkUrl == sHttps \o <<"w", ".", "x">>
\* identifiers a page or an NCBI record may expose
sFoundDoi == <<"1", "0", ".", "1", "0", "0", "0", "/", "a">>
sFoundPmid == <<"1", "2", "3", "4", "5", "6", "7">>
sFoundPmcid == <<"P", "M", "C", "1", "2">>

\* CrossRef: fetch rejects, status 404, body is not JSON, no message, message
\* lacks container-title or title (indexing undefined throws), or a message
DoiFailures == {"reject", "status404", "badJson", "noMessage", "noContainerTitle", "noTitle"}

DoiAnswers(doi) ==
    {[kind |-> k, DOI |-> Absent, URL |-> Absent, title |-> Absent] : k \in DoiFailures}
    \cup {[kind |-> "ok", DOI |-> d, URL |-> u, title |-> sTitle] :
             d \in (IF rich THEN {doi, Absent} ELSE {doi}),
             u \in (IF rich THEN {Absent, sWorkUrl} ELSE {Absent})}

\* NCBI: fetch rejects, body is not JSON, body is not an object, status "error", or a record
NcbiFailures == {"reject", "badJson", "notObject", "statusError"}

NcbiAnswers ==
    {[kind |-> k, DOI |-> Absent, URL |-> Absent, title |-> Absent] : k \in NcbiFailures}
    \cup {[kind |-> "ok", DOI |-> d, URL |-> u, title |-> sTitle] :
             d \in {Absent, sFoundDoi},
             u \in (IF rich THEN {Absent, sWorkUrl} ELSE {Absent})}

\* Open Library: fetch rejects, body is not JSON, numFound 0, first document
\* without author_name (createAuthorsArray(undefined) throws), or a document
IsbnFailures == {"reject", "badJson", "numFound0", "noAuthorName"}

IsbnAnswers ==
    {[kind |-> k, hasEdition |-> FALSE, editionIsbn |-> Absent, publishDate |-> Absent,
      title |-> Absent, authorName |-> <<>>] : k \in IsbnFailures}
    \cup {[kind |-> "ok", hasEdition |-> e, editionIsbn |-> i, publishDate |-> pd,
           title |-> sTitle, authorName |-> <<sAuthor>>] :
             e \in (IF rich THEN BOOLEAN ELSE {TRUE}),
             i \in (IF rich THEN {Absent, <<"9", "7", "8", "1">>} ELSE {Absent}),
             pd \in (IF rich THEN {Absent, sDateGood, sDateBad} ELSE {sDateGood})}

\* a fetched page: the content of the meta tags fromURL reads ("" when the tag is
\* missing) and what the three patterns find in the keywords
Page(metaDoi, ncbiUid, kwDoi, kwPmid, kwPmcid, full) ==
    [kind |-> "page",
     metaDoi |-> metaDoi, ncbiUid |-> ncbiUid,
     kwDoi |-> kwDoi, kwPmid |-> kwPmid, kwPmcid |-> kwPmcid,
     title |-> IF full THEN sTitle ELSE Absent,
     authors |-> IF full THEN <<sAuthor>> ELSE <<>>,
     siteName |-> IF full THEN sSite ELSE Absent,
     publisher |-> IF full THEN sSite ELSE Absent,
     ogUrl |-> IF full THEN sWorkUrl ELSE Absent,
     date |-> IF full THEN sDateGood ELSE Absent]

AllPages ==
    {Page(md, nu, kd, kp, kc, f) :
        md \in {Absent, sFoundDoi}, nu \in {Absent, sFoundPmid},
        kd \in {Absent, sFoundDoi}, kp \in {Absent, sFoundPmid},
        kc \in {Absent, sFoundPmcid}, f \in BOOLEAN}

LeanPages ==
    {Page(Absent, Absent, Absent, Absent, Absent, FALSE),
     Page(sFoundDoi, sFoundPmid, Absent, Absent, Absent, TRUE),
     Page(Absent, sFoundPmid, Absent, Absent, sFoundPmcid, TRUE),
     Page(Absent, Absent, Absent, Absent, sFoundPmcid, TRUE)}

UrlFailures == {"reject", "status403", "textReject"}

UrlAnswers == [kind : UrlFailures] \cup (IF rich THEN AllPages ELSE LeanPages)

Answers(adapter, query) ==
    CASE adapter = "DOI" -> DoiAnswers(query)
      [] adapter = "URL" -> UrlAnswers
      [] adapter = "ISBN" -> IsbnAnswers
      [] OTHER -> NcbiAnswers

(***************************************************************************)
(* CSLJsonParser: the source adapters                                      *)
(***************************************************************************)
\* a CSLJson object: the fields the adapters fill (absent fields are Absent / NoDate)
Csl(id, type, doi, url, isbn, title, author, containerTitle, publisher, issued, accessed) ==
    [id |-> id, type |-> type, DOI |-> doi, URL |-> url, ISBN |-> isbn, title |-> title,
     author |-> author, containerTitle |-> containerTitle, publisher |-> publisher,
     issued |-> issued, accessed |-> accessed]

\* outcomes of an adapter body between two awaits
Throw == [op |-> "throw"]
Push(record) == [op |-> "return", value |-> record, push |-> TRUE, caught |-> FALSE]
Call(adapter, arg) == [op |-> "call", adapter |-> adapter, arg |-> arg]

\* fromDOI taking a 404 for a record
fromDOI_No404(doi, ans, id) ==
    IF ans.kind \in DoiFailures \ {"status404"} THEN Throw
    ELSE Push(Csl(id, "journal-article", ans.DOI,
                  OrElse(ans.URL, IF ans.DOI # Absent THEN sDoiResolver \o ans.DOI ELSE Absent),
                  Absent, ans.title, <<>>, sSite, sSite, NoDate, createDateObject(Now)))

\* fromDOI returning, but not appending, a record whose DOI the store already holds
fromDOI_Dedup(doi, ans, id) ==
    IF ans.kind \in DoiFailures THEN Throw
    ELSE LET r == Csl(id, "journal-article", ans.DOI,
                      OrElse(ans.URL, IF ans.DOI # Absent THEN sDoiResolver \o ans.DOI
                                      ELSE Absent),
                      Absent, ans.title, <<>>, sSite, sSite, NoDate, createDateObject(Now))
         IN IF \E k \in 1..Len(cslJson) : cslJson[k].DOI = ans.DOI
            THEN [op |-> "return", value |-> r, push |-> FALSE, caught |-> FALSE]
            ELSE Push(r)

\* fromDOI falling back, after a 404, on the page the resolver serves for the DOI
fromDOI_ViaUrl(doi, ans, id) ==
    IF ans.kind = "status404" THEN Call("URL", sDoiResolver \o doi)
    ELSE IF ans.kind \in DoiFailures THEN Throw
    ELSE Push(Csl(id, "journal-article", ans.DOI,
                  OrElse(ans.URL, IF ans.DOI # Absent THEN sDoiResolver \o ans.DOI ELSE Absent),
                  Absent, ans.title, <<>>, sSite, sSite, NoDate, createDateObject(Now)))

\* fromDOI, the try block
fromDOI(doi, ans, id) ==
    IF ans.kind \in DoiFailures THEN Throw
    ELSE Push(Csl(id, "journal-article", ans.DOI,
                  OrElse(ans.URL, IF ans.DOI # Absent THEN sDoiResolver \o ans.DOI ELSE Absent),
                  Absent, ans.title, <<>>, sSite, sSite, NoDate, createDateObject(Now)))

\* getAvailableIdentifiers of fromURL
getAvailableIdentifiers(url, page) ==
    LET pubmed == StartsWith(url, sPubmed)
        pmidMatch == IF pubmed THEN page.kwPmid ELSE Absent
        pmcidMatch == IF pubmed THEN page.kwPmcid ELSE Absent
        doiMatch == IF pubmed THEN page.kwDoi ELSE Absent
    IN [doi |-> OrElse(page.metaDoi, doiMatch),
        pmid |-> OrElse(page.ncbiUid, pmidMatch),
        pmcid |-> pmcidMatch]

\* the priority list with PMID ahead of DOI
prioritizeIdentifiers_PmidFirst == <<"PMID", "DOI", "PMCID">>

\* const prioritizeIdentifiers
prioritizeIdentifiers == <<"DOI", "PMID", "PMCID">>

\* the identifier the loop over prioritizeIdentifiers delegates to, if any
Delegate(order, ids) ==
    LET value(t) == CASE t = "DOI" -> ids.doi [] t = "PMID" -> ids.pmid [] OTHER -> ids.pmcid
        hits == {i \in 1..Len(order) : value(order[i]) # Absent}
    IN IF hits = {} THEN [adapter |-> "none", arg |-> Absent]
       ELSE LET i == CHOOSE i \in hits : \A j \in hits : i <= j
            IN [adapter |-> order[i], arg |-> value(order[i])]

\* fromURL, the try block after the scheme was added
fromURL(url, ans, id) ==
    IF ans.kind \in UrlFailures THEN Throw
    ELSE LET d == Delegate(prioritizeIdentifiers, getAvailableIdentifiers(url, ans))
         IN IF d.adapter # "none" THEN Call(d.adapter, d.arg)
            ELSE Push(Csl(id, "webpage", Absent, OrElse(ans.ogUrl, url), Absent, ans.title,
                          createAuthorsArray(ans.authors), ans.siteName, ans.publisher,
                          createDateObject(ParseDate(OrElse(ans.date, <<>>))),
                          createDateObject(Now)))

\* fromISBN without the numFound check, mapping whatever the response holds
fromISBN_NoCheck(isbn, ans, id) ==
    IF ans.kind \in IsbnFailures \ {"numFound0"} THEN Throw
    ELSE Push(Csl(id, "book", Absent, Absent, isbn, ans.title,
                  createAuthorsArray(ans.authorName), Absent, Absent, NoDate,
                  createDateObject(Now)))

\* fromISBN, the try block
fromISBN(isbn, ans, id) ==
    IF ans.kind \in IsbnFailures THEN Throw
    ELSE LET hasDate == ans.hasEdition /\ ans.publishDate # Absent
         IN Push(Csl(id, "book", Absent, Absent,
                     OrElse(IF ans.hasEdition THEN ans.editionIsbn ELSE Absent, isbn),
                     ans.title, createAuthorsArray(ans.authorName), Absent,
                     IF ans.hasEdition THEN sSite ELSE Absent,
                     IF hasDate THEN createDateObject(ParseDate(ans.publishDate)) ELSE NoDate,
                     createDateObject(Now)))

\* fromPMID / fromPMCID mapping the response even when it carries a DOI
fromNCBI_OwnRecord(ans, id) ==
    IF ans.kind \in NcbiFailures THEN Throw
    ELSE Push(Csl(id, "article-journal", ans.DOI, ans.URL, Absent, ans.title, <<>>,
                  sSite, Absent, NoDate, createDateObject(Now)))

\* fromPMID and fromPMCID, the try block (the two differ in the URL queried)
fromNCBI(ans, id) ==
    IF ans.kind \in NcbiFailures THEN Throw
    ELSE IF ans.DOI # Absent THEN Call("DOI", ans.DOI)
    ELSE Push(Csl(id, "article-journal", Absent, ans.URL, Absent, ans.title, <<>>,
                  sSite, Absent, NoDate, createDateObject(Now)))

\* a call of an adapter: arg is the parameter as passed, ident the value the catch
\* block reports, query what is sent to the service
Frame(adapter, arg, ident, query) ==
    [adapter |-> adapter, arg |-> arg, ident |-> ident, query |-> query,
     answer |-> NoAnswer, ret |-> [op |-> "none"]]

\* the synchronous start of an adapter, up to its first await
Enter(adapter, arg) ==
    CASE adapter = "URL" ->
            LET url == IF ~HasScheme(arg) THEN sHttps \o arg ELSE arg
            IN Frame("URL", arg, url, url)
      [] adapter = "PMCID" -> Frame("PMCID", arg, arg, StripPMC(arg))
      [] OTHER -> Frame(adapter, arg, arg, arg)

\* the try block of the adapter of frame f, resumed with the answer ans
Body(f, ans, id) ==
    CASE f.adapter = "DOI" -> fromDOI(f.query, ans, id)
      [] f.adapter = "URL" -> fromURL(f.query, ans, id)
      [] f.adapter = "ISBN" -> fromISBN(f.query, ans, id)
      [] OTHER -> fromNCBI(ans, id)

\* a catch block that throws the error again: the promise of the adapter rejects
Catch_Rethrow(f, id) ==
    [op |-> "reject", value |-> Null, push |-> FALSE, caught |-> TRUE]

\* a catch block that puts the error into the marker when logging is on
Catch_Logged(f, id) ==
    [op |-> "return",
     value |-> IF logErrors
               THEN [id |-> id, identifier |-> f.ident, type |-> f.adapter,
                     status |-> "failed", error |-> "logged"]
               ELSE [id |-> id, identifier |-> f.ident, type |-> f.adapter,
                     status |-> "failed"],
     push |-> FALSE, caught |-> TRUE]

\* the catch block of every adapter
Catch(f, id) ==
    [op |-> "return",
     value |-> [id |-> id, identifier |-> f.ident, type |-> f.adapter, status |-> "failed"],
     push |-> FALSE, caught |-> TRUE]

\* fromURL building the webpage record when the adapter it delegated to has failed
Resume_Fallback(f, childOut, id) ==
    IF childOut.op = "reject" THEN Catch(f, id)
    ELSE IF f.adapter = "URL" /\ "status" \in DOMAIN childOut.value
    THEN [op |-> "return",
          value |-> Csl(id, "webpage", Absent, f.query, Absent, f.answer.title, <<>>,
                        Absent, Absent, NoDate, createDateObject(Now)),
          push |-> FALSE, caught |-> FALSE]
    ELSE [childOut EXCEPT !.push = FALSE, !.caught = FALSE]

\* an adapter resumed after "await this.fromX(...)" inside its try block
Resume(f, childOut, id) ==
    IF childOut.op = "reject" THEN Catch(f, id)
    ELSE [childOut EXCEPT !.push = FALSE, !.caught = FALSE]

\* the callers of the frame that completed, innermost first
RECURSIVE Unwind(_, _, _, _, _)
Unwind(frames, k, childOut, id, log) ==
    IF k = 0 THEN [frames |-> frames, out |-> childOut, uid |-> id, log |-> log]
    ELSE LET o == Resume(frames[k], childOut, id)
         IN Unwind([frames EXCEPT ![k].ret = o], k - 1, o,
                   IF o.caught THEN id + 1 ELSE id,
                   IF o.caught THEN Append(log, frames[k].adapter) ELSE log)

\* a frame resumed with the answer of its request
Step(f, ans, id) ==
    LET b == Body(f, ans, id)
    IN IF b.op = "throw" THEN Catch(f, id) ELSE b

(***************************************************************************)
(* index.ts: main and its helpers                                          *)
(***************************************************************************)
\* the two halves of the reduce over parsedIdentifiers in main
definedIdentifiers == SelectSeq(parsedIdentifiers, LAMBDA p : p.type # "undefined")

undefinedIdentifiers == SelectSeq(parsedIdentifiers, LAMBDA p : p.type = "undefined")

\* displayIdentifiers(identifiers, message, color)
displayIdentifiers(identifiers, message) == [kind |-> message, items |-> identifiers]

\* fetchers with the PMID and PMCID entries exchanged
Fetch_Swapped(type, id) ==
    LET to == CASE type = "PMID" -> "PMCID" [] type = "PMCID" -> "PMID" [] OTHER -> type
    IN IF type = "undefined"
       THEN [type |-> type, id |-> id, frames |-> <<>>, state |-> "fulfilled", value |-> Null]
       ELSE [type |-> type, id |-> id, frames |-> <<Enter(to, id)>>, state |-> "pending",
             value |-> Null]

\* fetchers[type](id) of retrieveContent: the promise of one identifier
Fetch(type, id) ==
    IF type = "undefined"
    THEN [type |-> type, id |-> id, frames |-> <<>>, state |-> "fulfilled", value |-> Null]
    ELSE [type |-> type, id |-> id, frames |-> <<Enter(type, id)>>, state |-> "pending",
          value |-> Null]

\* main printing the "Retrieving data" list ahead of the untyped identifiers
Classify_DefinedFirst ==
    /\ pc = "start"
    /\ LET parsed == [i \in 1..Len(argv) |-> recognizeIdentifierType(argv[i])]
           defined == SelectSeq(parsed, LAMBDA p : p.type # "undefined")
           nonDefined == SelectSeq(parsed, LAMBDA p : p.type = "undefined")
       IN IF argv = <<>> /\ entry = "index"
          THEN /\ stdout' = Append(stdout, [kind |-> "help", items |-> <<>>])
               /\ pc' = "done"
               /\ UNCHANGED parsedIdentifiers
          ELSE /\ parsedIdentifiers' = parsed
               /\ stdout' = stdout
                     \o (IF defined # <<>>
                         THEN <<displayIdentifiers(defined, "Retrieving data")>>
                         ELSE <<>>)
                     \o (IF nonDefined # <<>>
                         THEN <<displayIdentifiers(nonDefined, "Unable to determine the type")>>
                         ELSE <<>>)
               /\ pc' = IF defined = <<>> THEN "done" ELSE "dispatch"
    /\ UNCHANGED <<argv, logErrors, rich, tasks, cslJson, uidNext, stderr, failed,
                   successful, rendering, shell, exitCode>>

\* main up to the dispatch: classification, the two lists
Classify ==
    /\ pc = "start"
    /\ LET parsed == [i \in 1..Len(argv) |-> recognizeIdentifierType(argv[i])]
           defined == SelectSeq(parsed, LAMBDA p : p.type # "undefined")
           nonDefined == SelectSeq(parsed, LAMBDA p : p.type = "undefined")
       IN IF argv = <<>> /\ entry = "index"
          THEN /\ stdout' = Append(stdout, [kind |-> "help", items |-> <<>>])
               /\ pc' = "done"
               /\ UNCHANGED parsedIdentifiers
          ELSE /\ parsedIdentifiers' = parsed
               /\ stdout' = stdout
                     \o (IF nonDefined # <<>>
                         THEN <<displayIdentifiers(nonDefined, "Unable to determine the type")>>
                         ELSE <<>>)
                     \o (IF defined # <<>>
                         THEN <<displayIdentifiers(defined, "Retrieving data")>>
                         ELSE <<>>)
               /\ pc' = IF defined = <<>> THEN "done" ELSE "dispatch"
    /\ UNCHANGED <<argv, logErrors, rich, tasks, cslJson, uidNext, stderr, failed,
                   successful, rendering, shell, exitCode>>

\* createLoadingSpinner and retrieveContent up to Promise.all: every adapter is
\* called, in order, and runs to its first await
Dispatch ==
    /\ pc = "dispatch"
    /\ tasks' = [i \in 1..Len(definedIdentifiers) |->
                    Fetch(definedIdentifiers[i].type, definedIdentifiers[i].value)]
    /\ cslJson' = <<>>
    /\ pc' = "awaiting"
    /\ UNCHANGED <<argv, logErrors, rich, parsedIdentifiers, uidNext, stdout, stderr,
                   failed, successful, rendering, shell, exitCode>>

\* a store that takes the new record in front of the others
StorePush_Front(store, o) ==
    IF o.op = "return" /\ o.push THEN <<o.value>> \o store ELSE store

\* a store that takes whatever the adapter returns, the marker of its catch block too
StorePush_Any(store, o) ==
    IF o.op = "return" THEN Append(store, o.value) ELSE store

\* this.cslJson.push(newCslJsonObject): the last statement but one of every try block
\* that builds a record; a catch block pushes nothing
StorePush(store, o) ==
    IF o.op = "return" /\ o.push THEN Append(store, o.value) ELSE store

\* the request of the innermost adapter call of task i is answered with ans: the
\* adapter runs from "await fetch" through "await response.json()" (or text()) to its
\* return or to the call of the adapter it redirects to; nothing shared is read or
\* written between the two awaits, so they are one step
Answer(i, ans) ==
    /\ pc = "awaiting"
    /\ tasks[i].state = "pending"
    /\ LET t == tasks[i]
           top == Len(t.frames)
           f == t.frames[top]
           o == Step(f, ans, uidNext)
           \* the answer is kept (for the properties of a single call) when rich
           answered == IF rich THEN [t.frames EXCEPT ![top].answer = ans] ELSE t.frames
       IN /\ ans \in Answers(f.adapter, f.query)
          /\ IF o.op = "call"
             THEN /\ tasks' = [tasks EXCEPT ![i].frames = Append(answered, Enter(o.adapter, o.arg))]
                  /\ UNCHANGED <<cslJson, uidNext, stderr>>
             ELSE LET u == Unwind([answered EXCEPT ![top].ret = o], top - 1, o, uidNext + 1,
                                  IF o.caught THEN <<f.adapter>> ELSE <<>>)
                  IN /\ tasks' = [tasks EXCEPT
                                    ![i].frames = u.frames,
                                    ![i].state = IF u.out.op = "reject" THEN "rejected"
                                                 ELSE "fulfilled",
                                    ![i].value = IF u.out.op = "reject" THEN Null
                                                 ELSE u.out.value]
                     /\ cslJson' = StorePush(cslJson, o)
                     /\ uidNext' = u.uid
                     /\ stderr' = IF logErrors
                                  THEN stderr \o [k \in 1..Len(u.log) |->
                                                     [kind |-> "error", adapter |-> u.log[k]]]
                                  ELSE stderr
    /\ UNCHANGED <<argv, logErrors, rich, pc, parsedIdentifiers, stdout, failed,
                   successful, rendering, shell, exitCode>>

\* "status" in content && content.status === "failed"
IsFailed(content) == "status" \in DOMAIN content /\ content.status = "failed"

\* a reduce that keeps every result among the successes
PartitionContent_All(contentArray) ==
    [failed |-> SelectSeq(contentArray, IsFailed), successful |-> contentArray]

\* a reduce that prepends each success instead of appending it
PartitionContent_Reversed(contentArray) ==
    LET ok == SelectSeq(contentArray, LAMBDA c : ~IsFailed(c))
    IN [failed |-> SelectSeq(contentArray, IsFailed),
        successful |-> [k \in 1..Len(ok) |-> ok[Len(ok) + 1 - k]]]

\* the reduce of main over contentArray
PartitionContent(contentArray) ==
    [failed |-> SelectSeq(contentArray, IsFailed),
     successful |-> SelectSeq(contentArray, LAMBDA c : ~IsFailed(c))]

\* Promise.race in place of Promise.all: settled with the first promise
AllSettled_Any == \E i \in 1..Len(tasks) : tasks[i].state # "pending"

\* Promise.all settles: rejected as soon as one promise is, fulfilled when all are
AllSettled ==
    \/ \E i \in 1..Len(tasks) : tasks[i].state = "rejected"
    \/ \A i \in 1..Len(tasks) : tasks[i].state = "fulfilled"

\* main resumed after "await retrieveContent": filter, logDone, partition, failed list
Partition ==
    /\ pc = "awaiting"
    /\ AllSettled
    /\ IF \E i \in 1..Len(tasks) : tasks[i].state = "rejected"
       THEN /\ pc' = "crashed"
            /\ exitCode' = 1
            /\ UNCHANGED <<stdout, failed, successful>>
       ELSE LET results == [i \in 1..Len(tasks) |-> tasks[i].value]
                contentArray == SelectSeq(results, LAMBDA c : c # Null)
                parts == PartitionContent(contentArray)
            IN /\ failed' = parts.failed
               /\ successful' = parts.successful
               /\ stdout' = Append(stdout, [kind |-> "logDone", items |-> <<>>])
                     \o (IF parts.failed # <<>>
                         THEN <<displayIdentifiers(
                                   [k \in 1..Len(parts.failed) |->
                                       [type |-> parts.failed[k].type,
                                        value |-> parts.failed[k].identifier]],
                                   "Failed to retrieve")>>
                         ELSE <<>>)
               /\ pc' = IF parts.successful # <<>> THEN "format" ELSE "done"
               /\ UNCHANGED exitCode
    /\ UNCHANGED <<argv, logErrors, rich, parsedIdentifiers, tasks, cslJson, uidNext,
                   stderr, rendering, shell>>

\* toBibliography: the formatted references of the parser's items, or null when the
\* style file or the locale file is missing or the engine throws
toBibliography(items, styleFound, localeFound, engineOk) ==
    IF styleFound /\ localeFound /\ engineOk
    THEN [references |-> [k \in 1..Len(items) |-> items[k].id]]
    ELSE Null

\* a value used as a condition: an object (a Promise too) is truthy, null is not
Truthy(v) == v # Null

\* a value interpolated into a template string
Interpolate(v) == IF "promise" \in DOMAIN v THEN [text |-> "[object Promise]"] ELSE v

\* formatBibliography: toBibliography is async and its promise is not awaited
formatBibliography(content, styleFound, localeFound, engineOk) ==
    LET references == [promise |-> toBibliography(content, styleFound, localeFound, engineOk)]
    IN IF Truthy(references)
       THEN [kind |-> "Successfully generated references", body |-> Interpolate(references)]
       ELSE Null

\* formatBibliography of part_001: the promise is awaited and its value, a string or
\* null, is destructured as [references, intext]; null is not iterable, a string yields
\* its first two characters
formatBibliographyIntext(content, showIntext, styleFound, localeFound, engineOk) ==
    LET result == toBibliography(content, styleFound, localeFound, engineOk)
        references == [character |-> "first", of |-> result]
        intext == [character |-> "second", of |-> result]
    IN IF result = Null THEN Throw
       ELSE [op |-> "return",
             value |-> [kind |-> "Successfully generated references",
                        body |-> IF showIntext
                                 THEN [entries |-> references, intext |-> intext]
                                 ELSE references]]

\* main: if (successful.length) { formatBibliography ...; write }, and the end of main
Render(styleFound, localeFound, engineOk) ==
    /\ pc = "format"
    /\ rendering' = [called |-> TRUE, input |-> successful,
                     resolved |-> toBibliography(successful, styleFound, localeFound,
                                                 engineOk)]
    /\ stderr' = IF logErrors /\ ~(styleFound /\ localeFound /\ engineOk)
                 THEN Append(stderr, [kind |-> "error", adapter |-> "toBibliography"])
                 ELSE stderr
    /\ IF entry = "index"
       THEN LET bibliography == formatBibliography(successful, styleFound, localeFound,
                                                   engineOk)
            IN /\ stdout' = Append(stdout, IF Truthy(bibliography) THEN bibliography
                                           ELSE [kind |-> "Failed to format references!"])
               /\ pc' = "done"
               /\ UNCHANGED exitCode
       ELSE LET b == formatBibliographyIntext(successful, options.showIntext, styleFound,
                                              localeFound, engineOk)
            IN IF b.op = "throw"
               \* main rejects: an unhandled rejection ends the process with code 1
               THEN /\ pc' = "crashed"
                    /\ exitCode' = 1
                    /\ UNCHANGED stdout
               ELSE /\ stdout' = Append(stdout, b.value)
                    /\ pc' = "done"
                    /\ UNCHANGED exitCode
    /\ UNCHANGED <<argv, logErrors, rich, parsedIdentifiers, tasks, cslJson, uidNext,
                   failed, successful, shell>>

(***************************************************************************)
(* index.ts and part_001: the configuration file and the command line      *)
(***************************************************************************)
sConfig == <<"c", "o", "n", "f", "i", "g">>
kStyle == <<"s", "t", "y", "l", "e">>
kLocale == <<"l", "o", "c", "a", "l", "e">>
kFormat == <<"f", "o", "r", "m", "a", "t">>
kIntext == <<"i", "n", "t", "e", "x", "t">>
kReset == <<"r", "e", "s", "e", "t">>

fmtText == <<"t", "e", "x", "t">>
fmtHtml == <<"h", "t", "m", "l">>
fmtRtf == <<"r", "t", "f">>
fmtAsciidoc == <<"a", "s", "c", "i", "i", "d", "o", "c">>

sApa == <<"a", "p", "a">>
sEnUS == <<"e", "n", "-", "U", "S">>
sTrue == <<"t", "r", "u", "e">>
sDash == <<"-">>

\* /^(text|html|rtf|asciidoc)$/ of updateConfig
validFormats == {fmtText, fmtHtml, fmtRtf, fmtAsciidoc}

\* const validKeys of handleConfig: part_001 accepts intext, index.ts does not
validKeys(e) ==
    {kStyle, kLocale, kFormat, kReset} \cup (IF e = "part_001" THEN {kIntext} ELSE {})

\* the configuration file: missing, present with a content JSON.parse rejects (or that
\* cannot be read), or present with the object that JSON.stringify wrote (a flat object
\* of strings, which JSON.parse gives back as it was)
NoFile == [exists |-> FALSE, parses |-> FALSE, config |-> <<>>]
Unparsable == [exists |-> TRUE, parses |-> FALSE, config |-> <<>>]
FileOf(config) == [exists |-> TRUE, parses |-> TRUE, config |-> config]

\* getConfigFile: the object of the file, {} when there is no file, or the failure that
\* ends the process (the directory is created when missing)
getConfigFile(file) ==
    IF file.exists /\ ~file.parses THEN [ok |-> FALSE, config |-> <<>>]
    ELSE [ok |-> TRUE, config |-> file.config]

\* config[key], undefined when the key is not set
Get(config, key) == IF key \in DOMAIN config THEN config[key] ELSE Absent

\* args[n], undefined past the end
Arg(args, n) == IF n <= Len(args) THEN args[n] ELSE Absent

\* a process.exit(code) after the given writes to stdout and stderr
Exit(code, out, err, file) ==
    [exits |-> TRUE, code |-> code, out |-> out, err |-> err, file |-> file]

\* a reset that writes the configuration back as it was
resetConfig_Keep(file, writeOk) ==
    IF writeOk
    THEN Exit(0, <<[kind |-> "All configurations have been reset to default."]>>, <<>>,
              FileOf(file.config))
    ELSE Exit(0, <<>>, <<[kind |-> "Failed to reset configuration"]>>, file)

\* resetConfig; writeOk says whether fs.writeFileSync succeeds
resetConfig(file, writeOk) ==
    IF writeOk
    THEN Exit(0, <<[kind |-> "All configurations have been reset to default."]>>, <<>>,
              FileOf(<<>>))
    ELSE Exit(0, <<>>, <<[kind |-> "Failed to reset configuration"]>>, file)

\* an update that stores any format
updateConfig_Unchecked(config, key, value, file, writeOk) ==
    IF writeOk
    THEN Exit(0, <<[kind |-> "Configuration updated", key |-> key, value |-> value]>>, <<>>,
              FileOf((key :> value) @@ config))
    ELSE Exit(0, <<>>, <<[kind |-> "Failed to update configuration"]>>, file)

\* updateConfig
updateConfig(config, key, value, file, writeOk) ==
    IF key = kFormat /\ value \notin validFormats
    THEN Exit(1, <<>>, <<[kind |-> "Invalid format"]>>, file)
    ELSE IF writeOk
    THEN Exit(0, <<[kind |-> "Configuration updated", key |-> key, value |-> value]>>, <<>>,
              FileOf((key :> value) @@ config))
    ELSE Exit(0, <<>>, <<[kind |-> "Failed to update configuration"]>>, file)

\* retrieveConfig
retrieveConfig(config, key, file) ==
    IF Get(config, key) # Absent
    THEN Exit(0, <<[kind |-> "value", key |-> key, value |-> Get(config, key)]>>, <<>>, file)
    ELSE Exit(0, <<>>, <<[kind |-> "Key not found", key |-> key]>>, file)

\* handleConfig returning to its caller after it displayed a key
handleConfig_GetReturns(e, file, args, writeOk) ==
    LET c == getConfigFile(file)
        command == Arg(args, 1)
        key == Arg(args, 2)
        value == Arg(args, 3)
        extra == Arg(args, 4)
    IN IF ~c.ok
       THEN Exit(1, <<>>, <<[kind |-> "Failed to parse configuration file"]>>, file)
       ELSE IF command # sConfig
       THEN [exits |-> FALSE, code |-> 0, out |-> <<>>, err |-> <<>>, file |-> file]
       ELSE IF \/ key = Absent
               \/ extra # Absent
               \/ StartsWith(key, sDash)
               \/ value # Absent /\ StartsWith(value, sDash)
       THEN Exit(1, <<>>, <<[kind |-> "Invalid usage of the config command"]>>, file)
       ELSE IF key \notin validKeys(e)
       THEN Exit(1, <<>>, <<[kind |-> "Invalid key"]>>, file)
       ELSE IF key = kReset THEN resetConfig(file, writeOk)
       ELSE IF value # Absent THEN updateConfig(c.config, key, value, file, writeOk)
       ELSE [retrieveConfig(c.config, key, file) EXCEPT !.exits = FALSE]

\* handleConfig of entry point e on process.argv.slice(2) = args
handleConfig(e, file, args, writeOk) ==
    LET c == getConfigFile(file)
        command == Arg(args, 1)
        key == Arg(args, 2)
        value == Arg(args, 3)
        extra == Arg(args, 4)
    IN IF ~c.ok
       THEN Exit(1, <<>>, <<[kind |-> "Failed to parse configuration file"]>>, file)
       ELSE IF command # sConfig
       THEN [exits |-> FALSE, code |-> 0, out |-> <<>>, err |-> <<>>, file |-> file]
       ELSE IF \/ key = Absent
               \/ extra # Absent
               \/ StartsWith(key, sDash)
               \/ value # Absent /\ StartsWith(value, sDash)
       THEN Exit(1, <<>>, <<[kind |-> "Invalid usage of the config command"]>>, file)
       ELSE IF key \notin validKeys(e)
       THEN Exit(1, <<>>, <<[kind |-> "Invalid key"]>>, file)
       ELSE IF key = kReset THEN resetConfig(file, writeOk)
       ELSE IF value # Absent THEN updateConfig(c.config, key, value, file, writeOk)
       ELSE retrieveConfig(c.config, key, file)

\* /^-{1,2}x(long)?$/ with x the short and x \o long the long name of an option
Flag(a, short, long) ==
    \E n \in 1..2 :
        a \in {[k \in 1..n |-> "-"] \o short, [k \in 1..n |-> "-"] \o long}

\* /^-{0,2}h(elp)?$/ of main in part_001
HelpFlag(a) ==
    \E n \in 0..2 :
        a \in {[k \in 1..n |-> "-"] \o <<"h">>, [k \in 1..n |-> "-"] \o <<"h", "e", "l", "p">>}

\* /^-{1,2}no-intext$/
NoIntextFlag(a) ==
    \E n \in 1..2 : a = [k \in 1..n |-> "-"] \o <<"n", "o", "-">> \o kIntext

\* args[i].replace("\\-", "-"): the first backslash followed by a hyphen is dropped
Unescape(s) ==
    LET hits == {k \in 1..(Len(s) - 1) : s[k] = "\\" /\ s[k + 1] = "-"}
    IN IF hits = {} THEN s
       ELSE LET k == CHOOSE k \in hits : \A j \in hits : k <= j
            IN SubSeq(s, 1, k - 1) \o SubSeq(s, k + 1, Len(s))

\* the loop of parseArguments from position i on
RECURSIVE ParseLoop(_, _, _, _)
ParseLoop(e, args, i, acc) ==
    IF i > Len(args) THEN acc
    ELSE LET a == args[i]
             next == Arg(args, i + 1)
         IN IF e = "index" /\ Flag(a, <<"v">>, <<"v", "e", "r", "s", "i", "o", "n">>)
            THEN ParseLoop(e, args, i + 1, [acc EXCEPT !.showVersion = TRUE])
            ELSE IF Flag(a, <<"e">>, <<"e", "r", "r", "o", "r", "s">>)
            THEN ParseLoop(e, args, i + 1, [acc EXCEPT !.logErrors = TRUE])
            ELSE IF e = "part_001" /\ Flag(a, <<"i">>, kIntext)
            THEN ParseLoop(e, args, i + 1, [acc EXCEPT !.showIntext = TRUE])
            ELSE IF e = "part_001" /\ NoIntextFlag(a)
            THEN ParseLoop(e, args, i + 1, [acc EXCEPT !.showIntext = FALSE])
            ELSE IF Flag(a, <<"s">>, kStyle) /\ next # Absent
            THEN ParseLoop(e, args, i + 2, [acc EXCEPT !.style = next])
            ELSE IF Flag(a, <<"l">>, kLocale) /\ next # Absent
            THEN ParseLoop(e, args, i + 2, [acc EXCEPT !.locale = next])
            ELSE IF Flag(a, <<"f">>, kFormat) /\ next # Absent
            THEN ParseLoop(e, args, i + 2, [acc EXCEPT !.format = next])
            ELSE IF ~StartsWith(a, sDash)
            THEN ParseLoop(e, args, i + 1,
                           [acc EXCEPT !.identifiers = Append(@, Unescape(a))])
            ELSE ParseLoop(e, args, i + 1, acc)

\* parseArguments: the defaults come from the configuration, then the flags; index.ts
\* knows no in-text option
parseArguments(e, config, args) ==
    ParseLoop(e, args, 1,
              [identifiers |-> <<>>,
               style |-> OrElse(Get(config, kStyle), sApa),
               locale |-> OrElse(Get(config, kLocale), sEnUS),
               format |-> OrElse(Get(config, kFormat), fmtText),
               showIntext |-> e = "part_001" /\ Get(config, kIntext) = sTrue,
               logErrors |-> FALSE,
               showVersion |-> FALSE])

\* the options of a process that has not parsed its arguments
NoOptions == [style |-> Absent, locale |-> Absent, format |-> Absent, showIntext |-> FALSE]

(***************************************************************************)
(* Inputs and specifications                                               *)
(***************************************************************************)
MaxBatch == 2

rDoi == sFoundDoi
rUnknown == <<"n", "-", "a">>
rForcedUrl == sUrlP \o <<" ", "e", ".", "c", "o">>
rPubmed == sPubmed \o <<"/", "1">>
rPmid == sFoundPmid
rPmcid == sFoundPmcid
rIsbn == <<"9", "7", "8", "-", "1", "2", "3", "4", "5", "6", "7", "8", "9", "7">>

RawIds == {rDoi, rUnknown, rPubmed, rPmid, rPmcid, rIsbn}

SeqsUpTo(S, n) == UNION {[1..k -> S] : k \in 0..n}

\* the options parseArguments returns without configuration and without flags
DefaultOptions == [style |-> sApa, locale |-> sEnUS, format |-> fmtText, showIntext |-> FALSE]

NotRendered == [called |-> FALSE, input |-> <<>>, resolved |-> Null]

\* index.ts run without configuration file, main having parsed its arguments
Idle ==
    /\ pc = "start"
    /\ parsedIdentifiers = <<>>
    /\ tasks = <<>>
    /\ cslJson = <<>>
    /\ uidNext = 1
    /\ stdout = <<>>
    /\ stderr = <<>>
    /\ failed = <<>>
    /\ successful = <<>>
    /\ rendering = NotRendered
    /\ entry = "index"
    /\ configFile = NoFile
    /\ history = <<>>
    /\ options = DefaultOptions
    /\ exitCode = 0

\* a run of main on a batch of identifiers
Init ==
    /\ argv \in SeqsUpTo(RawIds, MaxBatch)
    /\ logErrors = FALSE
    /\ rich = FALSE
    /\ Idle

\* some pending request is answered, in any order and with any answer
AnswerSome ==
    \E i \in 1..Len(tasks) :
        \E ans \in Answers(tasks[i].frames[Len(tasks[i].frames)].adapter,
                           tasks[i].frames[Len(tasks[i].frames)].query) : Answer(i, ans)

\* the renderer runs, with any outcome of its two fetches and of the engine
RenderSome == \E styleFound, localeFound, engineOk \in BOOLEAN :
                  Render(styleFound, localeFound, engineOk)

Next ==
    \/ Classify
    \/ Dispatch
    \/ AnswerSome
    \/ Partition
    \/ RenderSome

Spec == Init /\ [][Next]_vars

\* the event loop runs every continuation that is ready (main after its await, an
\* adapter whose request was answered), and every request is answered or fails
Fairness == WF_vars(Next)

\* batches of the identifiers whose adapters redirect
LiveIds == {rPubmed, rPmid}

InitLive ==
    /\ argv \in SeqsUpTo(LiveIds, MaxBatch)
    /\ logErrors = FALSE
    /\ rich = FALSE
    /\ Idle

SpecLive == InitLive /\ [][Next]_vars /\ Fairness

\* a run on one identifier, with every answer of the services and error logging
rForcedUpper == sUrlP \o <<"H", "T", "T", "P", ":", "/", "/", "e", ".", "c", "o">>
rPubmedHttp == sHttp \o Slice(rPubmed, Len(sHttps))
rForcedPmcid == sPmcidP \o <<"p", "m", "c", "1", "2">>
rForcedDoi == sDoiP \o <<"x">>
rForcedPmid == sPmidP

rForcedPubmed == sUrlP \o <<" ">> \o rPubmed

AdapterIds == RawIds \cup {rForcedPubmed, rForcedUrl, rForcedUpper, rPubmedHttp, rForcedPmcid, rForcedDoi,
                           rForcedPmid}

InitAdapter ==
    /\ argv \in {<<r>> : r \in AdapterIds}
    /\ logErrors \in BOOLEAN
    /\ rich = TRUE
    /\ Idle

SpecAdapter == InitAdapter /\ [][Next]_vars

\* classification and dispatch of one identifier assembled from pieces
MaxTokens == 3

tDoiHead == <<"1", "0", ".", "1", "2", "3", "4", "/">>
tDigits7 == <<"1", "2", "3", "4", "5", "6", "7">>
tIsbnHead == <<"9", "7", "8", "1", "2", "3">>

Tokens == {tDoiHead, <<"a">>, <<"-">>, sPMC, tDigits7, tIsbnHead}

Prefixes == {<<>>, sUrlP, sDoiP, sPmcidP, sPmidP, sIsbnP, <<"D", "O", "I", ":">>}

ClassifyInputs ==
    {(IF pad THEN <<" ">> ELSE <<>>) \o prefix \o (IF pad THEN <<"\t">> ELSE <<>>)
        \o scheme \o resolver \o Flatten(body) \o (IF pad THEN <<"\n">> ELSE <<>>) :
        pad \in BOOLEAN, prefix \in Prefixes, scheme \in {<<>>, sHttp, sHttps},
        resolver \in {<<>>, sDoiOrg, sDx \o sDoiOrg}, body \in SeqsUpTo(Tokens, MaxTokens)}

InitClassify ==
    /\ argv \in {<<x>> : x \in ClassifyInputs}
    /\ logErrors = FALSE
    /\ rich = FALSE
    /\ Idle

NextClassify == Classify \/ Dispatch

SpecClassify == InitClassify /\ [][NextClassify]_vars

\* a sequence of command lines, each run by a new process of either entry point
MaxRuns == 2

vMla == <<"m", "l", "a">>
vFr == <<"f", "r", "-", "F", "R">>
vPdf == <<"p", "d", "f">>
vFalse == <<"f", "a", "l", "s", "e">>
vHTML == <<"H", "T", "M", "L">>
kColor == <<"c", "o", "l", "o", "r">>
aHelp == <<"h", "e", "l", "p">>
aVersion == <<"-", "v">>
aErrors == <<"-", "-", "e", "r", "r", "o", "r", "s">>
aStyle == <<"-", "s">>
aFormat == <<"-", "-", "f", "o", "r", "m", "a", "t">>
aIntext == <<"-", "i">>
aNoIntext == <<"-", "-", "n", "o", "-", "i", "n", "t", "e", "x", "t">>
aEscaped == <<"\\", "-", "1">>

ConfigCommands ==
    {<<sConfig>>,
     <<sConfig, kStyle>>, <<sConfig, kLocale>>, <<sConfig, kFormat>>, <<sConfig, kIntext>>,
     <<sConfig, kReset>>, <<sConfig, kReset, vMla>>,
     <<sConfig, kStyle, vMla>>, <<sConfig, kLocale, vFr>>,
     <<sConfig, kFormat, fmtHtml>>, <<sConfig, kFormat, vPdf>>, <<sConfig, kFormat, vHTML>>,
     <<sConfig, kIntext, sTrue>>, <<sConfig, kIntext, vFalse>>,
     <<sConfig, kColor, vMla>>, <<sConfig, aStyle, vMla>>, <<sConfig, kStyle, aVersion>>,
     <<sConfig, kStyle, vMla, vFr>>}

RunCommands ==
    {<<>>, <<aHelp>>, <<aVersion>>, <<aErrors>>,
     <<rDoi>>, <<rUnknown>>, <<aEscaped, rIsbn>>,
     <<aStyle, vFr, rDoi>>, <<rDoi, aFormat, fmtRtf, aErrors>>,
     <<aIntext, rDoi>>, <<aNoIntext, rDoi>>, <<rDoi, aStyle>>}

CommandLines == ConfigCommands \cup RunCommands

\* node starts: handleConfig(), then main() up to the identifiers to classify.  The
\* process ended before is gone; only the configuration file is kept.
Launch(args, writeOk) ==
    /\ pc \in {"shell", "done", "crashed"}
    /\ Len(history) < MaxRuns
    /\ history' = Append(history, [args |-> args, writeOk |-> writeOk])
    /\ LET h == handleConfig(entry, configFile, args, writeOk)
           p == parseArguments(entry, getConfigFile(configFile).config, args)
           version == [kind |-> "version", items |-> <<>>]
           help == [kind |-> "help", items |-> <<>>]
           early ==
               IF entry = "part_001" /\ (args = <<>> \/ HelpFlag(args[1])) THEN <<help>>
               ELSE IF entry = "part_001"
                       /\ Flag(args[1], <<"v">>, <<"v", "e", "r", "s", "i", "o", "n">>)
               THEN <<version>>
               ELSE IF entry = "index" /\ p.showVersion THEN <<version>>
               ELSE <<>>
       IN IF h.exits
          THEN /\ configFile' = h.file
               /\ stdout' = h.out
               /\ stderr' = h.err
               /\ exitCode' = h.code
               /\ pc' = "done"
               /\ argv' = <<>>
               /\ logErrors' = FALSE
               /\ options' = NoOptions
          ELSE IF early # <<>>
          THEN /\ stdout' = early
               /\ stderr' = <<>>
               /\ exitCode' = 0
               /\ pc' = "done"
               /\ argv' = <<>>
               /\ logErrors' = FALSE
               /\ options' = NoOptions
               /\ UNCHANGED configFile
          ELSE /\ stdout' = <<>>
               /\ stderr' = <<>>
               /\ exitCode' = 0
               /\ pc' = "start"
               /\ argv' = p.identifiers
               /\ logErrors' = p.logErrors
               /\ options' = [style |-> p.style, locale |-> p.locale, format |-> p.format,
                              showIntext |-> p.showIntext]
               /\ UNCHANGED configFile
    /\ parsedIdentifiers' = <<>>
    /\ tasks' = <<>>
    /\ cslJson' = <<>>
    /\ uidNext' = 1
    /\ failed' = <<>>
    /\ successful' = <<>>
    /\ rendering' = NotRendered
    /\ UNCHANGED <<entry, rich>>

\* any command line; the write of the configuration file may fail
LaunchSome ==
    \E args \in CommandLines : \E writeOk \in BOOLEAN :
        /\ writeOk \/ (args # <<>> /\ args[1] = sConfig)
        /\ Launch(args, writeOk)

InitConfig ==
    /\ entry \in {"index", "part_001"}
    /\ configFile \in {NoFile, Unparsable}
    /\ pc = "shell"
    /\ argv = <<>>
    /\ logErrors = FALSE
    /\ rich = FALSE
    /\ parsedIdentifiers = <<>>
    /\ tasks = <<>>
    /\ cslJson = <<>>
    /\ uidNext = 1
    /\ stdout = <<>>
    /\ stderr = <<>>
    /\ failed = <<>>
    /\ successful = <<>>
    /\ rendering = NotRendered
    /\ history = <<>>
    /\ options = NoOptions
    /\ exitCode = 0

NextConfig ==
    \/ LaunchSome
    \/ Classify
    \/ Dispatch
    \/ AnswerSome
    \/ Partition
    \/ RenderSome

SpecConfig == InitConfig /\ [][NextConfig]_vars

(***************************************************************************)
(* Properties                                                              *)
(***************************************************************************)
Classified == pc # "start" /\ argv # <<>>

Unprefixed(x) ==
    \A k \in 1..Len(identifierPrefixes) : ~StartsWith(Trim(x), identifierPrefixes[k].prefix)

\* C1: an input whose trimmed form starts with url:, doi:, isbn:, pmid: or pmcid: is
\* given that prefix's type and, as value, the trimmed text after the prefix, whatever
\* that text is; the adapter then called is the one of the forced type.
C1_ForcedType ==
    Classified =>
        \A i \in 1..Len(argv) : \A k \in 1..Len(identifierPrefixes) :
            LET t == Trim(argv[i])
                p == identifierPrefixes[k]
            IN StartsWith(t, p.prefix) =>
                  /\ parsedIdentifiers[i].type = p.type
                  /\ parsedIdentifiers[i].value = Trim(Slice(t, Len(p.prefix)))
                  /\ pc = "awaiting" => tasks[i].frames[1].adapter = p.type

\* C1 witness: a padded doi: followed by a text that matches the URL pattern and not the
\* DOI pattern was classified DOI and handed to fromDOI.
C1_Witness ==
    /\ pc = "awaiting"
    /\ StartsWith(Trim(argv[1]), sDoiP)
    /\ argv[1] # Trim(argv[1])
    /\ MatchURL(parsedIdentifiers[1].value)
    /\ ~MatchDOI(parsedIdentifiers[1].value)
    /\ parsedIdentifiers[1].type = "DOI"
    /\ tasks[1].frames[1].adapter = "DOI"

\* strings that the DOI pattern accepts, with or without a resolver prefix
ValidDOI(x) == MatchDOI(x)

\* C2: an unprefixed valid DOI string, bare or behind a doi.org / dx.doi.org resolver
\* prefix, is classified DOI (never URL, never anything else).
C2_ValidDoiIsDoi ==
    Classified =>
        \A i \in 1..Len(argv) :
            (Unprefixed(argv[i]) /\ ValidDOI(Trim(argv[i]))) => parsedIdentifiers[i].type = "DOI"

\* C3: for an unprefixed input the value is the trimmed input, hyphens included; the
\* type is one whose pattern accepts the hyphen-stripped copy, or undefined when no
\* pattern does; the adapter receives that value unchanged.
C3_HyphensKept ==
    Classified =>
        \A i \in 1..Len(argv) :
            Unprefixed(argv[i]) =>
                LET t == Trim(argv[i])
                    p == parsedIdentifiers[i]
                    known == {"DOI", "URL", "PMCID", "PMID", "ISBN"}
                IN /\ p.value = t
                   /\ p.type \in known => Matches(p.type, StripHyphens(t))
                   /\ p.type \notin known =>
                         /\ p.type = "undefined"
                         /\ \A ty \in known : ~Matches(ty, StripHyphens(t))
                   /\ (pc = "awaiting" /\ Len(argv) = 1) =>
                         /\ tasks[1].id = t
                         /\ tasks[1].frames[1].arg = t

\* C3 witness: an unprefixed identifier with a hyphen was typed through its stripped
\* copy and handed to the adapter with the hyphen.
C3_Witness ==
    /\ pc = "awaiting"
    /\ Len(argv) = 1
    /\ Unprefixed(argv[1])
    /\ \E k \in 1..Len(argv[1]) : argv[1][k] = "-"
    /\ parsedIdentifiers[1].type = "ISBN"
    /\ ~MatchISBN(Trim(argv[1]))
    /\ \E k \in 1..Len(tasks[1].frames[1].arg) : tasks[1].frames[1].arg[k] = "-"

Adapters == {"URL", "DOI", "PMCID", "PMID", "ISBN"}

Dispatched == pc \in {"awaiting", "format", "done", "crashed"}

Range(q) == {q[k] : k \in 1..Len(q)}

\* the number of identifiers with a known type among the first k
Rank(k) == Cardinality({m \in 1..k : parsedIdentifiers[m].type # "undefined"})

Events(kind) == {k \in 1..Len(stdout) : stdout[k].kind = kind}

\* C4: an identifier classified undefined is handed to no adapter and appears only in
\* the "Unable to determine the type" list; every identifier of a known type is handed,
\* exactly once, to the adapter of its type.
C4_UnknownNeverDispatched ==
    Dispatched =>
        /\ Len(tasks) = Rank(Len(parsedIdentifiers))
        /\ \A k \in 1..Len(parsedIdentifiers) :
              parsedIdentifiers[k].type # "undefined" =>
                  LET t == tasks[Rank(k)]
                  IN /\ t.type = parsedIdentifiers[k].type
                     /\ t.id = parsedIdentifiers[k].value
                     /\ t.frames[1].adapter = parsedIdentifiers[k].type
                     /\ t.frames[1].arg = parsedIdentifiers[k].value
        /\ \A j \in 1..Len(tasks) : \A d \in 1..Len(tasks[j].frames) :
              tasks[j].frames[d].adapter \in Adapters
        /\ (\E k \in 1..Len(parsedIdentifiers) : parsedIdentifiers[k].type = "undefined") =>
              /\ Cardinality(Events("Unable to determine the type")) = 1
              /\ \A e \in Events("Unable to determine the type") :
                    stdout[e].items = SelectSeq(parsedIdentifiers,
                                                LAMBDA p : p.type = "undefined")
        /\ \A e \in Events("Retrieving data") \cup Events("Failed to retrieve") :
              \A k \in 1..Len(stdout[e].items) : stdout[e].items[k].type \in Adapters

\* C4 witness: a batch of an unknown and a PMCID ran to its end with one adapter call.
C4_Witness ==
    /\ pc = "done"
    /\ Len(parsedIdentifiers) = 2
    /\ parsedIdentifiers[1].type = "undefined"
    /\ parsedIdentifiers[2].type = "PMCID"
    /\ Len(tasks) = 1
    /\ tasks[1].state = "fulfilled"

\* C5: an adapter call never rejects, and a failure marker it resolves to carries status
\* failed, the type of the adapter that was called and the string that was passed to it.
C5_MarkerCarriesOriginal ==
    \A i \in 1..Len(tasks) :
        /\ tasks[i].state # "rejected"
        /\ (tasks[i].state = "fulfilled" /\ "status" \in DOMAIN tasks[i].value) =>
              /\ tasks[i].value.status = "failed"
              /\ tasks[i].value.type = tasks[i].type
              /\ tasks[i].value.identifier = tasks[i].id

\* C6: main resumes only when every lookup has settled, no lookup rejects or aborts the
\* run, and every dispatched identifier has its result in one of the two parts.
C6_AllSettleBeforePartition ==
    /\ pc # "crashed"
    /\ \A i \in 1..Len(tasks) : tasks[i].state # "rejected"
    /\ (pc \in {"format", "done"} /\ tasks # <<>>) =>
          /\ \A i \in 1..Len(tasks) : tasks[i].state = "fulfilled"
          /\ Len(failed) + Len(successful) = Len(tasks)
          /\ \A i \in 1..Len(tasks) : tasks[i].value \in Range(failed) \cup Range(successful)

\* C6 witness: a batch of two ended with one failure and one record.
C6_Witness ==
    /\ pc = "done"
    /\ Len(tasks) = 2
    /\ Len(failed) = 1
    /\ Len(successful) = 1

\* C7: failed holds exactly the results with status failed, successful the others, the
\* two are disjoint and cover the non-null results, and the renderer receives successful.
C7_NoFailureRendered ==
    /\ (pc \in {"format", "done"} /\ tasks # <<>>) =>
          /\ \A k \in 1..Len(failed) : failed[k].status = "failed"
          /\ \A k \in 1..Len(successful) : "status" \notin DOMAIN successful[k]
          /\ Range(failed) \cap Range(successful) = {}
          /\ Range(failed) \cup Range(successful) =
                {tasks[i].value : i \in 1..Len(tasks)} \ {Null}
    /\ rendering.called =>
          /\ rendering.input = successful
          /\ \A k \in 1..Len(rendering.input) : "status" \notin DOMAIN rendering.input[k]

\* C7 witness: the renderer ran in a run that also had a failed identifier.
C7_Witness ==
    /\ rendering.called
    /\ failed # <<>>
    /\ rendering.input # <<>>

\* what getAvailableIdentifiers can find on the page answered to a URL frame
ExposesDoi(f) ==
    \/ f.answer.metaDoi # Absent
    \/ StartsWith(f.query, sPubmed) /\ f.answer.kwDoi # Absent

ExposesPmid(f) ==
    \/ f.answer.ncbiUid # Absent
    \/ StartsWith(f.query, sPubmed) /\ f.answer.kwPmid # Absent

ExposesPmcid(f) == StartsWith(f.query, sPubmed) /\ f.answer.kwPmcid # Absent

IsWebpage(v) == "status" \notin DOMAIN v /\ "type" \in DOMAIN v /\ v.type = "webpage"

UrlFrames ==
    {i \in 1..Len(tasks) :
        /\ tasks[i].frames # <<>>
        /\ tasks[i].frames[1].adapter = "URL"
        /\ tasks[i].frames[1].answer.kind = "page"}

\* the priority rule of fromURL for task i
UrlPriority(i) ==
    LET fs == tasks[i].frames
        f == fs[1]
        expected == IF ExposesDoi(f) THEN "DOI"
                    ELSE IF ExposesPmid(f) THEN "PMID"
                    ELSE IF ExposesPmcid(f) THEN "PMCID" ELSE "none"
    IN IF expected = "none"
       THEN /\ Len(fs) = 1
            /\ IsWebpage(tasks[i].value)
            /\ cslJson = <<tasks[i].value>>
       ELSE /\ Len(fs) >= 2
            /\ fs[2].adapter = expected
            /\ tasks[i].state = "fulfilled" =>
                  /\ f.ret.value = fs[2].ret.value
                  /\ tasks[i].value = fs[2].ret.value
                  /\ ~IsWebpage(tasks[i].value)

PubmedWithPmid(f) ==
    /\ StartsWith(f.query, sPubmed)
    /\ f.answer.ncbiUid # Absent \/ f.answer.kwPmid # Absent

\* C8 as stated: fromURL delegates to the first of DOI, PMID, PMCID the page exposes and
\* returns its result, builds the webpage record only when there is none, and a PubMed
\* page that exposes a PMID is resolved through the PMID adapter.
C8_Original ==
    \A i \in UrlFrames :
        /\ UrlPriority(i)
        /\ PubmedWithPmid(tasks[i].frames[1]) =>
              /\ tasks[i].frames[2].adapter = "PMID"
              /\ ~IsWebpage(tasks[i].value)

\* C8 amended: as above, but a PubMed page that exposes a PMID is resolved through the
\* PMID adapter only when it exposes no DOI, and through the DOI adapter when it does;
\* in both cases no webpage record is built.
C8_Amended ==
    \A i \in UrlFrames :
        /\ UrlPriority(i)
        /\ PubmedWithPmid(tasks[i].frames[1]) =>
              /\ tasks[i].frames[2].adapter =
                    (IF ExposesDoi(tasks[i].frames[1]) THEN "DOI" ELSE "PMID")
              /\ ~IsWebpage(tasks[i].value)
              /\ \A k \in 1..Len(cslJson) : ~IsWebpage(cslJson[k])

\* C8 witness: a forced-URL PubMed page whose keywords expose a PMID (and no DOI) was
\* resolved through fromPMID, whose record is the result.
C8_Witness ==
    /\ argv = <<rForcedPubmed>>
    /\ 1 \in UrlFrames
    /\ tasks[1].frames[1].answer.kwPmid # Absent
    /\ tasks[1].frames[1].answer.ncbiUid = Absent
    /\ ~ExposesDoi(tasks[1].frames[1])
    /\ Len(tasks[1].frames) = 2
    /\ tasks[1].frames[2].adapter = "PMID"
    /\ tasks[1].state = "fulfilled"
    /\ "status" \notin DOMAIN tasks[1].value

\* the frames of fromPMID / fromPMCID calls whose response was a record
NcbiFrames ==
    {<<i, d>> \in (1..Len(tasks)) \X (1..3) :
        /\ d <= Len(tasks[i].frames)
        /\ tasks[i].frames[d].adapter \in {"PMID", "PMCID"}
        /\ tasks[i].frames[d].answer.kind = "ok"}

\* C9: a fromPMID / fromPMCID call whose response carries a DOI returns what fromDOI of
\* that DOI returns and appends no record of its own; without a DOI it appends and
\* returns its own record, with accessed set; fromPMCID queries without the leading PMC.
C9_NcbiRedirect ==
    /\ \A x \in NcbiFrames :
          LET fs == tasks[x[1]].frames
              d == x[2]
              f == fs[d]
          IN IF f.answer.DOI # Absent
             THEN /\ Len(fs) = d + 1
                  /\ fs[d + 1].adapter = "DOI"
                  /\ fs[d + 1].arg = f.answer.DOI
                  /\ tasks[x[1]].state = "fulfilled" =>
                        /\ f.ret.value = fs[d + 1].ret.value
                        /\ ~f.ret.push
                        /\ cslJson = IF fs[d + 1].ret.push THEN <<fs[d + 1].ret.value>>
                                     ELSE <<>>
             ELSE /\ Len(fs) = d
                  /\ f.ret.op = "return"
                  /\ f.ret.push
                  /\ "status" \notin DOMAIN f.ret.value
                  /\ f.ret.value.accessed # NoDate
                  /\ cslJson = <<f.ret.value>>
                  /\ tasks[x[1]].value = f.ret.value
    /\ \A i \in 1..Len(tasks) : \A d \in 1..Len(tasks[i].frames) :
          LET f == tasks[i].frames[d]
          IN f.adapter = "PMCID" =>
                /\ StartsWith(f.arg, sPMC) => f.arg = sPMC \o f.query
                /\ ~StartsWith(f.arg, sPMC) => f.arg = f.query

\* C9 witness: a PMCID whose record carries a DOI ended with fromDOI's record, the only
\* entry of the store, after a query without the PMC prefix.
C9_Witness ==
    /\ Len(tasks) = 1
    /\ tasks[1].state = "fulfilled"
    /\ <<1, 1>> \in NcbiFrames
    /\ tasks[1].frames[1].adapter = "PMCID"
    /\ tasks[1].frames[1].arg = sPMC \o tasks[1].frames[1].query
    /\ tasks[1].frames[1].answer.DOI # Absent
    /\ tasks[1].frames[2].ret.push
    /\ cslJson = <<tasks[1].value>>

\* C10: when toBibliography resolved to the failure value, the run printed the notice
\* "Failed to format references!" exactly once and no bibliography.
C10_RenderFailureNotice ==
    (pc = "done" /\ rendering.called /\ rendering.resolved = Null) =>
        /\ Cardinality(Events("Failed to format references!")) = 1
        /\ Events("Successfully generated references") = {}

\* the events that end a rendering: the bibliography or the render-failure notice
Outcomes == Events("Successfully generated references")
            \cup Events("Failed to format references!")

\* C11: the list of untyped identifiers, if any, is the first thing printed, before the
\* "Retrieving data" list and before any adapter is called; the "Failed to retrieve" list
\* is printed only when every lookup has settled and before the bibliography or the
\* render-failure notice; no failed identifier is among the items of the bibliography.
C11_OutputOrder ==
    /\ (pc # "start" /\ undefinedIdentifiers # <<>>) =>
          Events("Unable to determine the type") = {1}
    /\ \A u \in Events("Unable to determine the type") :
          \A r \in Events("Retrieving data") : u < r
    /\ tasks # <<>> => Events("Retrieving data") # {}
    /\ Events("Failed to retrieve") # {} =>
          /\ pc \in {"format", "done"}
          /\ \A i \in 1..Len(tasks) : tasks[i].state \in {"fulfilled", "rejected"}
    /\ (pc \in {"format", "done"} /\ failed # <<>>) =>
          Cardinality(Events("Failed to retrieve")) = 1
    /\ \A f \in Events("Failed to retrieve") :
          /\ \A r \in Events("Retrieving data") : r < f
          /\ \A o \in Outcomes : f < o
    /\ Outcomes # {} => rendering.called
    /\ rendering.called =>
          /\ \A k \in 1..Len(rendering.input) : \A j \in 1..Len(failed) :
                rendering.input[k].id # failed[j].id
          /\ rendering.resolved # Null =>
                \A k \in 1..Len(rendering.resolved.references) : \A j \in 1..Len(failed) :
                    rendering.resolved.references[k] # failed[j].id

\* C11 witness: a run printed the list of failed identifiers and, after it, a bibliography
\* made of the one record that was retrieved.
C11_Witness ==
    /\ pc = "done"
    /\ \E f \in Events("Failed to retrieve") :
          \E o \in Events("Successfully generated references") : f < o
    /\ Len(failed) = 1
    /\ rendering.resolved # Null
    /\ Len(rendering.resolved.references) = 1

\* the position, among the promises, of the lookup that produced the result v
TaskOf(v) == CHOOSE i \in 1..Len(tasks) : tasks[i].value = v

\* the entries of q are results of lookups, in the order the lookups were dispatched
InDispatchOrder(q) ==
    /\ \A k \in 1..Len(q) : \E i \in 1..Len(tasks) : tasks[i].value = q[k]
    /\ \A k, l \in 1..Len(q) : k < l => TaskOf(q[k]) < TaskOf(q[l])

\* C12: whatever the completion order of the lookups, the promises are in command-line
\* order, and the failed list that is displayed and the records handed to the renderer
\* list their entries in that order.
C12_InputOrder ==
    /\ Dispatched =>
          \A k, l \in 1..Len(parsedIdentifiers) :
              (k < l /\ parsedIdentifiers[k].type # "undefined"
                     /\ parsedIdentifiers[l].type # "undefined") =>
                  /\ Rank(k) < Rank(l)
                  /\ tasks[Rank(k)].id = recognizeIdentifierType(argv[k]).value
                  /\ tasks[Rank(l)].id = recognizeIdentifierType(argv[l]).value
    /\ (pc \in {"format", "done"} /\ tasks # <<>>) =>
          /\ InDispatchOrder(failed)
          /\ InDispatchOrder(successful)
          /\ \A e \in Events("Failed to retrieve") :
                stdout[e].items = [k \in 1..Len(failed) |->
                                      [type |-> failed[k].type, value |-> failed[k].identifier]]
    /\ rendering.called => InDispatchOrder(rendering.input)

\* C12 witness: the second lookup completed first, and the renderer received the two
\* records in command-line order.
C12_Witness ==
    /\ rendering.called
    /\ Len(tasks) = 2
    /\ cslJson = <<tasks[2].value, tasks[1].value>>
    /\ rendering.input = <<tasks[1].value, tasks[2].value>>

\* the fields of a failure marker
MarkerFields == {"id", "identifier", "type", "status"}

\* the fromISBN calls that Open Library answered with numFound 0
IsbnEmptyFrames ==
    {i \in 1..Len(tasks) :
        /\ tasks[i].frames # <<>>
        /\ tasks[i].frames[1].adapter = "ISBN"
        /\ tasks[i].frames[1].answer.kind = "numFound0"}

\* C17: a fromISBN call answered with numFound 0 resolves to a failure marker of type
\* ISBN whose identifier is the string passed in; the marker has no bibliographic field,
\* and the store receives nothing.
C17_IsbnNotFound ==
    \A i \in IsbnEmptyFrames :
        LET f == tasks[i].frames[1]
        IN /\ Len(tasks[i].frames) = 1
           /\ tasks[i].state = "fulfilled"
           /\ DOMAIN tasks[i].value = MarkerFields
           /\ tasks[i].value.status = "failed"
           /\ tasks[i].value.type = "ISBN"
           /\ tasks[i].value.identifier = f.arg
           /\ tasks[i].value.identifier = tasks[i].id
           /\ ~f.ret.push
           /\ cslJson = <<>>

\* C17 witness: the hyphenated ISBN was looked up, Open Library found nothing, and the
\* run listed it as failed.
C17_Witness ==
    /\ 1 \in IsbnEmptyFrames
    /\ argv = <<rIsbn>>
    /\ pc = "done"
    /\ Len(failed) = 1
    /\ failed[1].identifier = rIsbn

\* C18: in a run on one bare DOI there is exactly one lookup, by fromDOI; when CrossRef
\* answers 404 the identifier is listed once as failed with type DOI, the renderer is not
\* called and neither a bibliography nor the render-failure notice is printed.  In every
\* run the renderer is called only with at least one record.
C18_Doi404 ==
    /\ (argv = <<rDoi>> /\ Dispatched) =>
          /\ Len(tasks) = 1
          /\ Len(tasks[1].frames) = 1
          /\ tasks[1].frames[1].adapter = "DOI"
          /\ tasks[1].frames[1].query = rDoi
          /\ (tasks[1].frames[1].answer.kind = "status404") =>
                /\ tasks[1].state = "fulfilled"
                /\ IsFailed(tasks[1].value)
                /\ cslJson = <<>>
                /\ ~rendering.called
                /\ Outcomes = {}
                /\ pc \in {"awaiting", "done"}
                /\ pc = "done" =>
                      /\ Cardinality(Events("Failed to retrieve")) = 1
                      /\ \A e \in Events("Failed to retrieve") :
                            stdout[e].items = <<[type |-> "DOI", value |-> rDoi]>>
    /\ (rendering.called \/ pc = "format") =>
          /\ successful # <<>>
          /\ \E i \in 1..Len(tasks) : tasks[i].state = "fulfilled" /\ ~IsFailed(tasks[i].value)
    /\ Outcomes # {} => rendering.called

\* C18 witness: the run on the bare DOI ended after a 404, with the failed list printed.
C18_Witness ==
    /\ argv = <<rDoi>>
    /\ pc = "done"
    /\ tasks[1].frames[1].answer.kind = "status404"
    /\ Events("Failed to retrieve") # {}

\* a result without what differs from one resolution to the next: id and accessed
Strip(v) ==
    IF "accessed" \in DOMAIN v THEN [v EXCEPT !.id = 0, !.accessed = NoDate]
    ELSE [v EXCEPT !.id = 0]

\* what the call of frame d resolves to, from the answers alone: the record of its try
\* block, the marker of its catch block, or the result of the adapter it delegates to
RECURSIVE ValueByAnswers(_, _)
ValueByAnswers(fs, d) ==
    LET f == fs[d]
        b == Body(f, f.answer, 0)
    IN CASE b.op = "throw" ->
               [id |-> 0, identifier |-> f.ident, type |-> f.adapter, status |-> "failed"]
         [] b.op = "call" -> ValueByAnswers(fs, d + 1)
         [] OTHER -> Strip(b.value)

\* C19: the value a lookup resolves to, and the store, are determined by the adapter, its
\* argument and the answers of the services: they are the same with and without error
\* logging (id and accessed aside), and diagnostics are written only when logging is on.
C19_LoggingKeepsValue ==
    /\ \A i \in 1..Len(tasks) :
          tasks[i].state # "pending" =>
              /\ tasks[i].state = "fulfilled"
              /\ Strip(tasks[i].value) = ValueByAnswers(tasks[i].frames, 1)
              /\ [k \in 1..Len(cslJson) |-> Strip(cslJson[k])] =
                    (IF IsFailed(tasks[i].value) THEN <<>>
                     ELSE <<ValueByAnswers(tasks[i].frames, 1)>>)
    /\ stderr # <<>> => logErrors
    /\ (logErrors /\ pc \in {"format", "done"}) =>
          Len(SelectSeq(stderr, LAMBDA e : e.adapter # "toBibliography")) = Len(failed)

\* C19 witness: with logging on, a lookup failed, the error was written to stderr and the
\* run listed the marker.
C19_Witness ==
    /\ logErrors
    /\ stderr # <<>>
    /\ pc = "done"
    /\ Len(failed) = 1
    /\ DOMAIN failed[1] = MarkerFields

\* the lookups of task i and task j are fromDOI calls of the same DOI that returned a record
SameDoiTwice(i, j) ==
    /\ i # j
    /\ tasks[i].type = "DOI" /\ tasks[j].type = "DOI"
    /\ tasks[i].id = tasks[j].id
    /\ tasks[i].state = "fulfilled" /\ ~IsFailed(tasks[i].value)
    /\ tasks[j].state = "fulfilled" /\ ~IsFailed(tasks[j].value)

\* C20: two fromDOI calls of the same DOI that CrossRef answered alike return two records
\* that agree in every field but id and accessed, and each of the two is in the store.
C20_DoiTwice ==
    \A i, j \in 1..Len(tasks) :
        SameDoiTwice(i, j) =>
            /\ Strip(tasks[i].value) = Strip(tasks[j].value)
            /\ tasks[i].value.id # tasks[j].value.id
            /\ {tasks[i].value, tasks[j].value} \subseteq Range(cslJson)
            /\ Cardinality({k \in 1..Len(cslJson) : cslJson[k] \in {tasks[i].value, tasks[j].value}}) = 2

\* C20 witness: the batch held the same DOI twice and both lookups returned a record.
C20_Witness ==
    /\ argv = <<rDoi, rDoi>>
    /\ Len(tasks) = 2
    /\ SameDoiTwice(1, 2)
    /\ rendering.called
    /\ Len(rendering.input) = 2

\* the command line of the current process
Last == history[Len(history)]

\* the process has ended
Ended == history # <<>> /\ pc \in {"done", "crashed"}

\* the keys the configuration holds, and the values they take
ConfigKeys == {kStyle, kLocale, kFormat, kIntext}

IsConfig(args) == args # <<>> /\ args[1] = sConfig

\* a config command line that is not of the form config <key> [<value>]
Malformed(args) ==
    /\ IsConfig(args)
    /\ \/ Len(args) \notin {2, 3}
       \/ \E k \in 2..Len(args) : StartsWith(args[k], sDash)

\* config <key> <value> with a key of the configuration and a value it takes
IsSet(args) ==
    /\ IsConfig(args) /\ ~Malformed(args)
    /\ Len(args) = 3
    /\ args[2] \in ConfigKeys
    /\ args[2] = kFormat => args[3] \in validFormats
    /\ args[2] = kIntext => args[3] \in {sTrue, vFalse}

IsGet(args) == IsConfig(args) /\ ~Malformed(args) /\ Len(args) = 2 /\ args[2] \in ConfigKeys

IsReset(args) == IsConfig(args) /\ ~Malformed(args) /\ args[2] = kReset

InvalidKey(args) ==
    IsConfig(args) /\ ~Malformed(args) /\ args[2] \notin ConfigKeys \cup {kReset}

InvalidFormat(args) ==
    /\ IsConfig(args) /\ ~Malformed(args)
    /\ Len(args) = 3 /\ args[2] = kFormat /\ args[3] \notin validFormats

Readable(file) == ~file.exists \/ file.parses

\* what is written to stderr when something is wrong with the configuration
ConfigFailures ==
    {"Failed to parse configuration file", "Failed to reset configuration",
     "Failed to update configuration", "Invalid usage of the config command",
     "Invalid key", "Invalid format"}

\* C13: a process ends with code 1 when the configuration file cannot be read or parsed
\* or the config command is malformed, names an invalid key or an invalid format, and
\* with code 0 otherwise (help, version, config get / set / reset, a resolution run);
\* a process that reported a configuration failure does not end with code 0.
C13_ExitCodes ==
    Ended =>
        LET args == Last.args
            configError == \/ ~Readable(configFile)
                           \/ Malformed(args) \/ InvalidKey(args) \/ InvalidFormat(args)
        IN /\ exitCode \in {0, 1}
           /\ configError => exitCode = 1
           /\ ~configError => exitCode = 0
           /\ (\E k \in 1..Len(stderr) : stderr[k].kind \in ConfigFailures) => exitCode = 1

\* a step that starts a process
IsLaunch == history' # history

OptionOf(opts, key) ==
    CASE key = kStyle -> opts.style
      [] key = kLocale -> opts.locale
      [] key = kFormat -> opts.format
      [] OTHER -> IF opts.showIntext THEN sTrue ELSE vFalse

\* C15: config <key> <value>, for each key of style, locale, format, intext and a value
\* the key takes, stores the value and leaves the other keys alone; config <key> then
\* displays the stored value, and a run without flags takes it as its default; the file
\* changes in no other step.
C15_SetThenGet ==
    [][LET args == history'[Len(history')].args
           writeOk == history'[Len(history')].writeOk
       IN /\ (IsLaunch /\ IsSet(args) /\ Readable(configFile) /\ writeOk) =>
                 /\ exitCode' = 0
                 /\ configFile'.parses
                 /\ Get(configFile'.config, args[2]) = args[3]
                 /\ \A k \in ConfigKeys \ {args[2]} :
                       Get(configFile'.config, k) = Get(configFile.config, k)
          /\ (IsLaunch /\ IsGet(args) /\ Readable(configFile)
                /\ Get(configFile.config, args[2]) # Absent) =>
                 /\ stdout' = <<[kind |-> "value", key |-> args[2],
                                 value |-> Get(configFile.config, args[2])]>>
                 /\ configFile' = configFile
          /\ (IsLaunch /\ args = <<rDoi>> /\ Readable(configFile)) =>
                 /\ pc' = "start"
                 /\ \A k \in ConfigKeys :
                       Get(configFile.config, k) # Absent =>
                           OptionOf(options', k) = Get(configFile.config, k)
          /\ ~IsLaunch => configFile' = configFile]_vars

ResolvedRecords ==
    SelectSeq([i \in 1..Len(tasks) |-> tasks[i].value], LAMBDA v : v # Null /\ ~IsFailed(v))

\* C21 as stated: the sequence handed to the renderer is the store, in insertion order.
C21_RendererGetsStore ==
    rendering.called => rendering.input = cslJson

\* C21 amended: the renderer receives exactly the records the adapters appended to the
\* store, each once, in the order of their identifiers on the command line; the store
\* itself, in insertion order, is not what is handed over.
C21_RendererGetsRecords ==
    /\ (pc \in {"format", "done"} /\ tasks # <<>>) =>
          /\ successful = ResolvedRecords
          /\ Len(successful) = Len(cslJson)
          /\ Range(successful) = Range(cslJson)
          /\ Cardinality(Range(cslJson)) = Len(cslJson)
    /\ rendering.called =>
          /\ rendering.input = ResolvedRecords
          /\ Len(rendering.input) = Len(cslJson)
          /\ Range(rendering.input) = Range(cslJson)
          /\ InDispatchOrder(rendering.input)
          /\ rendering.resolved # Null =>
                rendering.resolved.references =
                    [k \in 1..Len(rendering.input) |-> rendering.input[k].id]

\* C21 witness: the second lookup completed first and the first one went through a
\* redirection; the renderer received the two records of the store in the other order.
C21_Witness ==
    /\ rendering.called
    /\ Len(tasks) = 2
    /\ Len(tasks[1].frames) = 2
    /\ Len(cslJson) = 2
    /\ cslJson[1] = tasks[2].value
    /\ rendering.input = <<cslJson[2], cslJson[1]>>

\* the lookups that settle in the step
Settling == {i \in 1..Len(tasks) : tasks[i].state = "pending" /\ tasks'[i].state # "pending"}

\* C22: the store grows by one record, at its end, in the step in which a lookup
\* completes with a record, and in no other step, so its order is the order in which the
\* successful lookups completed; a lookup that completes changes no other lookup and
\* nothing of main; once all have settled the store holds the records the lookups
\* resolved to, whatever the order they completed in.
C22_CompletionOrder ==
    [][/\ Len(tasks') = Len(tasks) =>
             /\ Cardinality(Settling) <= 1
             /\ \A i \in Settling :
                   /\ tasks'[i].state = "fulfilled"
                   /\ cslJson' = IF IsFailed(tasks'[i].value) THEN cslJson
                                 ELSE Append(cslJson, tasks'[i].value)
                   /\ \A j \in 1..Len(tasks) : j # i => tasks'[j] = tasks[j]
                   /\ UNCHANGED <<argv, pc, parsedIdentifiers, stdout, failed, successful,
                                  rendering>>
             /\ Settling = {} => cslJson' = cslJson
       /\ (pc' \in {"format", "done"} /\ tasks' # <<>>) =>
             /\ Range(cslJson') = Range(ResolvedRecords')
             /\ Len(cslJson') = Len(ResolvedRecords')]_vars

\* C22 witness: both lookups of a batch of two have completed, the second one first, and
\* the store lists the second record before the first while main still waits.
C22_Witness ==
    /\ pc = "awaiting"
    /\ Len(tasks) = 2
    /\ tasks[1].state = "fulfilled" /\ tasks[2].state = "fulfilled"
    /\ cslJson = <<tasks[2].value, tasks[1].value>>
    /\ ResolvedRecords = <<tasks[1].value, tasks[2].value>>

\* the adapters an adapter may delegate to
RedirectsTo(adapter) ==
    CASE adapter = "URL" -> {"DOI", "PMID", "PMCID"}
      [] adapter \in {"PMID", "PMCID"} -> {"DOI"}
      [] OTHER -> {}

\* the number of adapters invoked by redirection in the resolution of task i
Depth(i) == Len(tasks[i].frames) - 1

\* C23 as stated: at most one adapter is invoked by redirection in a resolution.
C23_DepthOne ==
    \A i \in 1..Len(tasks) : Depth(i) <= 1

\* C23 amended: at most two adapters are invoked by redirection in a resolution:
\* fromURL delegates to fromDOI, fromPMID or fromPMCID, fromPMID and fromPMCID delegate
\* to fromDOI, and fromDOI and fromISBN delegate to none.
C23_DepthTwo ==
    \A i \in 1..Len(tasks) :
        /\ Depth(i) <= 2
        /\ \A d \in 1..Depth(i) :
              tasks[i].frames[d + 1].adapter \in RedirectsTo(tasks[i].frames[d].adapter)
        /\ Depth(i) = 2 =>
              /\ tasks[i].frames[1].adapter = "URL"
              /\ tasks[i].frames[2].adapter \in {"PMID", "PMCID"}
              /\ tasks[i].frames[3].adapter = "DOI"
        /\ tasks[i].type \in {"DOI", "ISBN"} => Depth(i) = 0
        /\ tasks[i].type \in {"PMID", "PMCID"} => Depth(i) <= 1

\* C23 witness: a URL was resolved through fromPMID and then fromDOI, whose record is the
\* result of the lookup.
C23_Witness ==
    /\ Len(tasks) = 1
    /\ Depth(1) = 2
    /\ tasks[1].frames[2].adapter = "PMID"
    /\ tasks[1].state = "fulfilled"
    /\ ~IsFailed(tasks[1].value)
    /\ cslJson = <<tasks[1].value>>

\* the fromISBN calls that Open Library answered with a document
IsbnFoundFrames ==
    {i \in 1..Len(tasks) :
        /\ tasks[i].frames # <<>>
        /\ tasks[i].frames[1].adapter = "ISBN"
        /\ tasks[i].frames[1].answer.kind = "ok"}

\* a CSL date that is present and has a number in every part
ValidCslDate(date) == date # NoDate /\ \A k \in 1..Len(date) : date[k] # NaN

\* C24: the record fromISBN returns has an issued date exactly when the first edition
\* has a publish-date string that parses to a valid date, the date then being a valid
\* one; with no edition, no publish date or an unparseable string issued is omitted;
\* accessed is the date of the resolution in every case.
C24_IsbnIssued ==
    \A i \in IsbnFoundFrames :
        LET a == tasks[i].frames[1].answer
            v == tasks[i].value
            parses == /\ a.hasEdition
                      /\ a.publishDate # Absent
                      /\ ParseDate(a.publishDate) # InvalidDate
        IN /\ tasks[i].state = "fulfilled"
           /\ ~IsFailed(v)
           /\ v.type = "book"
           /\ parses => ValidCslDate(v.issued)
           /\ ~parses => v.issued = NoDate
           /\ v.accessed = createDateObject(Now)

\* the fromURL calls answered with a page without author, site-name, publisher,
\* canonical-URL and date tags that exposes no other identifier
BarePageFrames ==
    {i \in 1..Len(tasks) :
        /\ tasks[i].frames # <<>>
        /\ tasks[i].frames[1].adapter = "URL"
        /\ tasks[i].frames[1].answer.kind = "page"
        /\ LET p == tasks[i].frames[1].answer
           IN /\ p.authors = <<>> /\ p.siteName = Absent /\ p.publisher = Absent
              /\ p.ogUrl = Absent /\ p.date = Absent
              /\ ~ExposesDoi(tasks[i].frames[1])
              /\ ~ExposesPmid(tasks[i].frames[1])
              /\ ~ExposesPmcid(tasks[i].frames[1])}

\* C25: fromURL on a page with none of the tags and no other identifier does not fail:
\* it returns a webpage record with no author, an issued date that is omitted or valid
\* (never an invalid date), and the requested URL.
C25_BarePage ==
    \A i \in BarePageFrames :
        LET f == tasks[i].frames[1]
            v == tasks[i].value
        IN /\ tasks[i].state = "fulfilled"
           /\ Len(tasks[i].frames) = 1
           /\ IsWebpage(v)
           /\ v.author = <<>>
           /\ v.URL = f.query
           /\ v.accessed = createDateObject(Now)
           /\ cslJson = <<v>>
           /\ v.issued = NoDate \/ ValidCslDate(v.issued)

\* the lookups i and j, dispatched for identifiers of different types, resolved to
\* records of the same DOI
SameWork(i, j) ==
    /\ tasks[i].type # tasks[j].type
    /\ tasks[i].state = "fulfilled" /\ ~IsFailed(tasks[i].value)
    /\ tasks[j].state = "fulfilled" /\ ~IsFailed(tasks[j].value)
    /\ tasks[i].value.DOI # Absent
    /\ tasks[i].value.DOI = tasks[j].value.DOI

\* the number of entries of q that carry the DOI
CountDoi(q, doi) == Cardinality({k \in 1..Len(q) : q[k].DOI = doi})

\* C26: when identifiers of different types in a batch resolve to the same DOI, the
\* store and the records handed to the renderer hold one record for that DOI.
C26_DedupThroughDoi ==
    \A i, j \in 1..Len(tasks) :
        SameWork(i, j) =>
            /\ CountDoi(cslJson, tasks[i].value.DOI) = 1
            /\ rendering.called => CountDoi(rendering.input, tasks[i].value.DOI) = 1

\* q is p with entries added at its end
Extends(q, p) == Len(q) >= Len(p) /\ SubSeq(q, 1, Len(p)) = p

\* C27: in every step of a run the store keeps its entries, in their order, and what is
\* added is added at the end; it never holds a failure marker and each of its records
\* has an id and an accessed date; once all lookups have settled it holds one entry for
\* each lookup that returned a record, redirected ones included, and none for a lookup
\* that returned a failure marker.
C27_StoreAppendOnly ==
    [][/\ Extends(cslJson', cslJson)
       /\ Len(cslJson') <= Len(cslJson) + 1
       /\ \A k \in 1..Len(cslJson') :
             /\ ~IsFailed(cslJson'[k])
             /\ "id" \in DOMAIN cslJson'[k] /\ cslJson'[k].id \in Nat \ {0}
             /\ "accessed" \in DOMAIN cslJson'[k] /\ ValidCslDate(cslJson'[k].accessed)
       /\ \A k, l \in 1..Len(cslJson') : k # l => cslJson'[k].id # cslJson'[l].id
       /\ (pc' \in {"format", "done"} /\ tasks' # <<>>) =>
             \A i \in 1..Len(tasks') :
                 LET v == tasks'[i].value
                     n == Cardinality({k \in 1..Len(cslJson') : cslJson'[k] = v})
                 IN /\ tasks'[i].state = "fulfilled"
                    /\ n = (IF IsFailed(v) THEN 0 ELSE 1)
                    /\ IsFailed(v) =>
                          \A k \in 1..Len(cslJson') : cslJson'[k].id # v.id
       /\ (pc' \in {"format", "done"} /\ tasks' # <<>>) =>
             Len(cslJson') = Cardinality({i \in 1..Len(tasks') : ~IsFailed(tasks'[i].value)})]_vars

\* C27 witness: a batch of two ended with a failure marker for the first identifier and,
\* in the store, the one record that the second obtained through a redirection.
C27_Witness ==
    /\ pc = "done"
    /\ Len(tasks) = 2
    /\ IsFailed(tasks[1].value)
    /\ Len(tasks[2].frames) >= 2
    /\ cslJson = <<tasks[2].value>>
    /\ tasks[2].frames[Len(tasks[2].frames)].ret.push

\* the fromURL calls that delegated to an adapter whose result is a failure marker
FailedDelegations ==
    {i \in UrlFrames :
        /\ Len(tasks[i].frames) >= 2
        /\ tasks[i].state = "fulfilled"
        /\ IsFailed(tasks[i].frames[2].ret.value)}

\* C28: when the adapter fromURL delegated to returns a failure marker, fromURL returns
\* that marker as it is, with the type and the identifier of the redirected identifier
\* that failed; the adapter delegated to is the one of the first identifier the page
\* exposes and no other is tried after it, no webpage record is built and the store
\* stays empty.
C28_DelegateFailure ==
    \A i \in FailedDelegations :
        LET fs == tasks[i].frames
            f == fs[1]
            last == fs[Len(fs)]
            v == tasks[i].value
        IN /\ v = fs[2].ret.value
           /\ f.ret.value = fs[2].ret.value
           /\ ~f.ret.push /\ ~f.ret.caught
           /\ DOMAIN v = MarkerFields
           /\ v.type = last.adapter /\ v.identifier = last.ident
           /\ v.type # "URL"
           /\ fs[2].adapter = (IF ExposesDoi(f) THEN "DOI"
                               ELSE IF ExposesPmid(f) THEN "PMID" ELSE "PMCID")
           /\ Len(fs) <= 3
           /\ Len(fs) = 3 => fs[2].adapter \in {"PMID", "PMCID"} /\ fs[3].adapter = "DOI"
           /\ cslJson = <<>>

\* C28 witness: a page exposed a DOI and a PMID, fromDOI got a 404, and the run ended
\* with the DOI listed as failed and nothing stored.
C28_Witness ==
    /\ pc = "done"
    /\ 1 \in FailedDelegations
    /\ ExposesDoi(tasks[1].frames[1])
    /\ ExposesPmid(tasks[1].frames[1])
    /\ tasks[1].frames[2].answer.kind = "status404"
    /\ Len(failed) = 1
    /\ failed[1].type = "DOI"
    /\ cslJson = <<>>

\* what a config command writes to stdout
ConfigOutputs ==
    {"All configurations have been reset to default.", "Configuration updated", "value"}

\* config <key> <value> as handleConfig of the entry point accepts it
AcceptedSet(args) ==
    /\ IsConfig(args) /\ ~Malformed(args)
    /\ Len(args) = 3
    /\ args[2] \in validKeys(entry) \ {kReset}
    /\ args[2] = kFormat => args[3] \in validFormats

\* C29: a process whose first argument is config ends inside handleConfig: it classifies
\* nothing, calls no adapter and renders nothing, and no step of main follows it; the
\* file changes only in the start of a process that runs an accepted config set or a
\* config reset.
C29_ConfigExits ==
    [][LET args == history'[Len(history')].args
           writeOk == history'[Len(history')].writeOk
       IN /\ (IsLaunch /\ IsConfig(args)) =>
                 /\ pc' = "done"
                 /\ exitCode' \in {0, 1}
                 /\ parsedIdentifiers' = <<>>
                 /\ tasks' = <<>>
                 /\ cslJson' = <<>>
                 /\ rendering' = NotRendered
                 /\ \A k \in 1..Len(stdout') : stdout'[k].kind \in ConfigOutputs
                 /\ Len(stdout') + Len(stderr') = 1
          /\ (history # <<>> /\ IsConfig(Last.args)) => IsLaunch
          /\ configFile' # configFile =>
                 /\ IsLaunch
                 /\ writeOk
                 /\ Readable(configFile)
                 /\ AcceptedSet(args) \/ IsReset(args)
                 /\ AcceptedSet(args) =>
                       configFile' = FileOf((args[2] :> args[3]) @@ configFile.config)
                 /\ IsReset(args) => configFile' = FileOf(<<>>)]_vars

\* C29 witness: after config style mla, config style displayed mla and ended; nothing was
\* classified and the file is as the set left it.
C29_Witness ==
    /\ Ended
    /\ Len(history) = 2
    /\ history[1].args = <<sConfig, kStyle, vMla>>
    /\ Last.args = <<sConfig, kStyle>>
    /\ stdout = <<[kind |-> "value", key |-> kStyle, value |-> vMla]>>
    /\ parsedIdentifiers = <<>>
    /\ tasks = <<>>
    /\ configFile = FileOf(kStyle :> vMla)

\* the adapters on the redirect chain of task i, the dispatched one first
Chain(i) == [d \in 1..Len(tasks[i].frames) |-> tasks[i].frames[d].adapter]

\* no adapter is entered twice and every redirection is one the adapters make
Acyclic(i) ==
    /\ \A d, e \in 1..Len(Chain(i)) : d # e => Chain(i)[d] # Chain(i)[e]
    /\ \A d \in 1..(Len(Chain(i)) - 1) : Chain(i)[d + 1] \in RedirectsTo(Chain(i)[d])
    /\ \A d \in 1..Len(Chain(i)) : Chain(i)[d] = "DOI" => d = Len(Chain(i))

\* the run has stopped the spinner and printed what it found
Printed ==
    /\ pc = "done"
    /\ \A i \in 1..Len(tasks) : tasks[i].state = "fulfilled"
    /\ Cardinality(Events("logDone")) = 1
    /\ Cardinality(Events("Failed to retrieve")) = (IF failed # <<>> THEN 1 ELSE 0)
    /\ Cardinality(Outcomes) = (IF successful # <<>> THEN 1 ELSE 0)
    /\ Len(failed) + Len(successful) = Len(tasks)

\* C30: when every request is eventually answered, a run that has dispatched its
\* lookups eventually has every lookup settled, the spinner stopped and its results
\* printed; on the way no lookup enters an adapter twice: fromURL redirects to fromDOI,
\* fromPMID or fromPMCID, these two to fromDOI, and fromDOI to none.
C30_Terminates ==
    /\ [](\A i \in 1..Len(tasks) : Acyclic(i))
    /\ (pc = "awaiting") ~> Printed

\* C30 witness: a run whose first lookup went from fromURL through fromPMCID to fromDOI,
\* with a second lookup beside it, has printed its results.
C30_Witness ==
    /\ Printed
    /\ Len(tasks) = 2
    /\ Chain(1) = <<"URL", "PMCID", "DOI">>
    /\ Outcomes # {}

====
